---- MODULE Spec2Model ----
(***************************************************************************)
(* Page generation orchestrator of the free-government-phone site          *)
(* generator: generateAllPageContent and the helpers it calls              *)
(* (body-variations.ts).  A behaviour of Spec is one call of               *)
(* generateAllPageContent on an output tree left by earlier runs.          *)
(***************************************************************************)
EXTENDS Integers, Sequences, FiniteSets, TLC

(***************************************************************************)
(* Program constants                                                       *)
(***************************************************************************)
PARALLEL_WORKERS == 3

\* names of PAGE_DEFINITIONS, in catalog order
PAGE_DEFINITIONS ==
  << "state-programs", "lifeline-program", "acp-program", "faq", "programs",
     "providers", "eligibility", "tribal-programs", "emergency-broadband",
     "contact", "apply", "states-index", "404" >>

STATIC_PAGE_NAMES ==
  { "faq", "programs", "providers", "eligibility", "contact", "apply",
    "states-index", "404" }

PROGRAM_PAGE_NAMES ==
  { "state-programs", "lifeline-program", "acp-program", "tribal-programs",
    "emergency-broadband" }

Range(s) == { s[i] : i \in 1..Len(s) }

Pages == Range(PAGE_DEFINITIONS)

(***************************************************************************)
(* Bounds                                                                  *)
(***************************************************************************)
\* number of steps of one run at which the environment (provider, file
\* system, progress callback) departs from the nominal answer
MaxDeviations == 2

(***************************************************************************)
(* Files.  A file is known by what stat and validatePageContent read of    *)
(* it: byte size, string length, markers, non-blank line count.            *)
(***************************************************************************)
NoFile == [kind |-> "none", origin |-> "none"]

FileKinds ==
  { "good", "good500", "short", "errfailed",
    "multibyte", "fewlines", "nodashes", "nomarker",
    "doctype", "layout", "errfailed1000", "failedonly",
    "unreadable" }

\* readable: readFile answers (a directory, or a file without read permission,
\* passes stat and makes readFile throw); length: content.length; dashes:
\* includes('---'); htmlTag, doctype, layout: includes('<html'), ('<!doctype'),
\* ('<Layout'); error, failed: the lower-cased content includes the word;
\* lines: the lines whose trim() is not empty
FileAttrs(kind) ==
  CASE kind = "good" ->
         [size |-> 2400, length |-> 2400, readable |-> TRUE,
          dashes |-> TRUE, htmlTag |-> TRUE, doctype |-> FALSE,
          layout |-> FALSE, error |-> FALSE, failed |-> FALSE, lines |-> 60]
    [] kind = "good500" ->
         [size |-> 500, length |-> 500, readable |-> TRUE,
          dashes |-> TRUE, htmlTag |-> TRUE, doctype |-> FALSE,
          layout |-> FALSE, error |-> FALSE, failed |-> FALSE, lines |-> 20]
    [] kind = "short" ->
         [size |-> 499, length |-> 499, readable |-> TRUE,
          dashes |-> TRUE, htmlTag |-> TRUE, doctype |-> FALSE,
          layout |-> FALSE, error |-> FALSE, failed |-> FALSE, lines |-> 20]
    [] kind = "errfailed" ->
         [size |-> 800, length |-> 800, readable |-> TRUE,
          dashes |-> TRUE, htmlTag |-> TRUE, doctype |-> FALSE,
          layout |-> FALSE, error |-> TRUE, failed |-> TRUE, lines |-> 25]
    [] kind = "multibyte" ->
         [size |-> 900, length |-> 450, readable |-> TRUE,
          dashes |-> TRUE, htmlTag |-> TRUE, doctype |-> FALSE,
          layout |-> FALSE, error |-> FALSE, failed |-> FALSE, lines |-> 25]
    [] kind = "fewlines" ->
         [size |-> 1500, length |-> 1500, readable |-> TRUE,
          dashes |-> TRUE, htmlTag |-> TRUE, doctype |-> FALSE,
          layout |-> FALSE, error |-> TRUE, failed |-> FALSE, lines |-> 19]
    [] kind = "nodashes" ->
         [size |-> 2400, length |-> 2400, readable |-> TRUE,
          dashes |-> FALSE, htmlTag |-> TRUE, doctype |-> FALSE,
          layout |-> FALSE, error |-> FALSE, failed |-> FALSE, lines |-> 60]
    [] kind = "nomarker" ->
         [size |-> 2400, length |-> 2400, readable |-> TRUE,
          dashes |-> TRUE, htmlTag |-> FALSE, doctype |-> FALSE,
          layout |-> FALSE, error |-> FALSE, failed |-> FALSE, lines |-> 60]
    [] kind = "doctype" ->
         [size |-> 2400, length |-> 2400, readable |-> TRUE,
          dashes |-> TRUE, htmlTag |-> FALSE, doctype |-> TRUE,
          layout |-> FALSE, error |-> FALSE, failed |-> FALSE, lines |-> 60]
    [] kind = "layout" ->
         [size |-> 2400, length |-> 2400, readable |-> TRUE,
          dashes |-> TRUE, htmlTag |-> FALSE, doctype |-> FALSE,
          layout |-> TRUE, error |-> FALSE, failed |-> FALSE, lines |-> 60]
    [] kind = "errfailed1000" ->
         [size |-> 1000, length |-> 1000, readable |-> TRUE,
          dashes |-> TRUE, htmlTag |-> TRUE, doctype |-> FALSE,
          layout |-> FALSE, error |-> TRUE, failed |-> TRUE, lines |-> 25]
    [] kind = "failedonly" ->
         [size |-> 800, length |-> 800, readable |-> TRUE,
          dashes |-> TRUE, htmlTag |-> FALSE, doctype |-> FALSE,
          layout |-> TRUE, error |-> FALSE, failed |-> TRUE, lines |-> 25]
    [] kind = "unreadable" ->
         [size |-> 2400, length |-> 2400, readable |-> FALSE,
          dashes |-> TRUE, htmlTag |-> TRUE, doctype |-> FALSE,
          layout |-> FALSE, error |-> FALSE, failed |-> FALSE, lines |-> 60]

Exists(f) == f.kind # "none"

\* fs.stat(fullPath).size
StatSize(f) == FileAttrs(f.kind).size

\* validatePageContent: readFile, then the five heuristics; a failing read
\* (no file) is caught and answers false
validatePageContentNoMarker(f) ==
  IF ~Exists(f) THEN FALSE
  ELSE LET c == FileAttrs(f.kind) IN
       IF ~c.readable THEN FALSE
       ELSE IF c.length < 500 THEN FALSE
       ELSE IF ~c.dashes THEN FALSE
       ELSE IF c.error /\ c.failed /\ c.length < 1000 THEN FALSE
       ELSE IF c.lines < 20 THEN FALSE
       ELSE TRUE

validatePageContent(f) ==
  IF ~Exists(f) THEN FALSE
  ELSE LET c == FileAttrs(f.kind) IN
       IF ~c.readable THEN FALSE
       ELSE IF c.length < 500 THEN FALSE
       ELSE IF ~c.dashes THEN FALSE
       ELSE IF ~c.htmlTag /\ ~c.doctype /\ ~c.layout THEN FALSE
       ELSE IF c.error /\ c.failed /\ c.length < 1000 THEN FALSE
       ELSE IF c.lines < 20 THEN FALSE
       ELSE TRUE

\* the test both passes make of an existing file:
\* isValid && existingStat.size > 500
SkipTest(f) == Exists(f) /\ validatePageContent(f) /\ StatSize(f) > 500

(***************************************************************************)
(* Options and the page catalog                                            *)
(***************************************************************************)
NoOptions == [defined |-> FALSE, staticPages |-> TRUE, programPages |-> TRUE,
              forceRegenerate |-> FALSE]

GenerateOptions ==
  { NoOptions } \cup
  [defined : {TRUE}, staticPages : BOOLEAN, programPages : BOOLEAN,
   forceRegenerate : BOOLEAN]

\* mutant of IncludePage: program pages gated by the flag of static pages
IncludePageOneFlag(options, name) ==
  IF ~options.defined THEN TRUE
  ELSE IF name \in STATIC_PAGE_NAMES THEN options.staticPages
  ELSE IF name \in PROGRAM_PAGE_NAMES THEN options.staticPages
  ELSE TRUE

\* filterPageDefinitions(options)
IncludePage(options, name) ==
  IF ~options.defined THEN TRUE
  ELSE IF name \in STATIC_PAGE_NAMES THEN options.staticPages
  ELSE IF name \in PROGRAM_PAGE_NAMES THEN options.programPages
  ELSE TRUE

filterPageDefinitions(options) ==
  SelectSeq(PAGE_DEFINITIONS, LAMBDA name : IncludePage(options, name))

\* getTotalPages(options)
getTotalPages(options) == Len(filterPageDefinitions(options))

\* mutants of mustRegenerate: a category forgotten
mustRegenerateProgramOnly(name) == name \in PROGRAM_PAGE_NAMES
mustRegenerateNoStatesIndex(name) ==
  \/ name \in PROGRAM_PAGE_NAMES
  \/ name = "providers"
  \/ name = "programs"
  \/ name = "faq"

\* mustRegenerate of the first pass: program pages, providers, programs, faq,
\* states-index
mustRegenerate(name) ==
  \/ name \in PROGRAM_PAGE_NAMES
  \/ name = "providers"
  \/ name = "programs"
  \/ name = "faq"
  \/ name = "states-index"

\* mutant of shouldForceRegenerate: the option is not read
forceIgnored(options) == FALSE

\* generateOptions?.forceRegenerate === true
shouldForceRegenerate(options) == options.defined /\ options.forceRegenerate

Min(a, b) == IF a < b THEN a ELSE b

\* number of batches: one per PARALLEL_WORKERS pages of the filtered catalog
NumBatches(n) == (n + PARALLEL_WORKERS - 1) \div PARALLEL_WORKERS

\* mutant of BatchPositions: the slice ends one page too far
BatchPositionsOverlap(n, k) ==
  (k * PARALLEL_WORKERS + 1) .. Min(n, (k + 1) * PARALLEL_WORKERS + 1)

\* batches[k] (k 0-based) = pagesToGenerate.slice(k*W, k*W + W), as positions
BatchPositions(n, k) ==
  (k * PARALLEL_WORKERS + 1) .. Min(n, (k + 1) * PARALLEL_WORKERS)

(***************************************************************************)
(* Output trees a run may start on                                         *)
(***************************************************************************)
Old(kind) == [kind |-> kind, origin |-> "old"]
New(kind) == [kind |-> kind, origin |-> "new"]

\* nothing generated yet
FreshTree == [p \in Pages |-> NoFile]
\* an earlier run generated valid output for every page
CompleteTree == [p \in Pages |-> Old("good")]
\* leftovers of interrupted runs
StaleTree ==
  [p \in Pages |->
     CASE p = "eligibility" -> Old("good500")
       [] p = "contact" -> Old("multibyte")
       [] p = "apply" -> Old("errfailed")
       [] p = "404" -> Old("good")
       [] p = "faq" -> Old("short")
       [] p = "providers" -> Old("fewlines")
       [] p = "acp-program" -> NoFile
       [] OTHER -> Old("good")]

InitialTrees == { FreshTree, CompleteTree, StaleTree }

(***************************************************************************)
(* State of one run of generateAllPageContent                              *)
(***************************************************************************)
VARIABLES
  generateOptions,  \* the generateOptions argument (NoOptions: undefined)
  pagesToGenerate,  \* names of the filtered catalog (<< >> until filtered)
  fs,               \* the output tree: page name -> file at its outputPath
  fs0,              \* the output tree when the run started
  pc,               \* where the body of generateAllPageContent stands
  batchIndex,       \* batchIndex of the for loop over batches
  task,             \* first-pass task (batchPromises entry) of every page
  content,          \* content generatePageWithClaude returned, to be written
  retryIndex,       \* position in pagesToGenerate of the page in the retry pass
  retried,          \* what the retry pass did with a page
  completedCount,
  skippedCount,
  generatedCount,
  providerCalls,    \* calls of generatePageWithClaude issued per page, by pass
  notes,            \* statuses passed to onProgress, per page, in order
  batchNotes,       \* the 'batch-N' notifications passed to onProgress
  lastReported,     \* completed count of the latest call of onProgress
  cbThrew,          \* pages (or "batch") whose onProgress call threw
  deviations,       \* environment deviations so far
  flaky             \* the page the environment deviates for

\* the module-level state of body-variations.ts, the clock, one call of
\* withRetry and the process that calls generateAllPageContent
VARIABLES
  lastRateLimitHit,
  consecutiveRateLimitHits,
  now,              \* Date.now()
  wr,               \* the frame of a call of withRetry
  proc              \* the process: its runs of generateAllPageContent

runVars == << generateOptions, pagesToGenerate, fs, fs0, pc, batchIndex, task,
              content, retryIndex, retried, completedCount, skippedCount,
              generatedCount, providerCalls, notes,
              lastReported, batchNotes, cbThrew,
              deviations, flaky >>

rateVars == << lastRateLimitHit, consecutiveRateLimitHits, now >>

\* the sitemap library (seeded generator, shuffles, sitemap listings) and
\* the variation selector: the call being followed, one variable per unit
VARIABLES
  gen,              \* a generator returned by createSeededRandom
  shuf,             \* calls of seededShuffle and of its wrappers
  sel,              \* calls of the variation getters
  site              \* a sitemap listing being built

libVars == << gen, shuf, sel, site >>

\* calls of validatePageContent, the pagination loops of
\* getCitiesForSitemap and of the sitemap.xml route, and the requests the
\* middleware answers
VARIABLES
  val,              \* calls of validatePageContent
  cf,               \* a call of getCitiesForSitemap, fetch by fetch
  rt,               \* the city pagination of the sitemap.xml route
  web               \* a request and the redirects that follow it

webVars == << val, cf, rt, web >>

vars == << runVars, rateVars, wr, proc, libVars, webVars >>

total == Len(pagesToGenerate)
RunPages == Range(pagesToGenerate)
BatchOfPages(pages, k) == { pages[i] : i \in BatchPositions(Len(pages), k) }
Batch(k) == BatchOfPages(pagesToGenerate, k)

Settled == { "skipped", "generated", "rejected" }

\* The environment (provider, file system, onProgress) answers nominally
\* (content that validates, no error, no throw) except at up to
\* MaxDeviations steps of a run, all of them about one page.
CanDeviate(p) == deviations < MaxDeviations /\ flaky \in { "none", p }
Deviate(p) == deviations' = deviations + 1 /\ flaky' = p
Nominal == UNCHANGED << deviations, flaky >>

(***************************************************************************)
(* Module-level settings and state                                         *)
(***************************************************************************)
BATCH_DELAY_MS == 20000
MAX_RETRIES == 8
INITIAL_RETRY_DELAY_MS == 5000
MAX_RETRY_DELAY_MS == 60000

\* Date.now() when the module is loaded, in ms; any value above the 60000 ms
\* window the delays look back over
ProcessStart == 100000

\* let lastRateLimitHit = 0; let consecutiveRateLimitHits = 0;
ModuleLoaded ==
  /\ lastRateLimitHit = 0
  /\ consecutiveRateLimitHits = 0

\* no call of withRetry is being followed
NoCall == [pc |-> "none"]

\* no process is being followed
NoProcess == [pc |-> "none"]

\* no call of the sitemap library or of the selector is being followed
NoLibraryCall == [pc |-> "none"]
LibIdle ==
  /\ gen = NoLibraryCall
  /\ shuf = NoLibraryCall
  /\ sel = NoLibraryCall
  /\ site = NoLibraryCall
  /\ val = NoLibraryCall
  /\ cf = NoLibraryCall
  /\ rt = NoLibraryCall
  /\ web = NoLibraryCall

\* generateAllPageContent is called: its options, the output tree it finds,
\* and its locals before its first statement
RunInit ==
  /\ generateOptions \in GenerateOptions
  /\ pagesToGenerate = << >>
  /\ fs \in InitialTrees
  /\ fs0 = fs
  /\ pc = "start"
  /\ batchIndex = 0
  /\ task = [p \in Pages |-> "idle"]
  /\ content = [p \in Pages |-> "none"]
  /\ retryIndex = 0
  /\ retried = [p \in Pages |-> "none"]
  /\ completedCount = 0
  /\ skippedCount = 0
  /\ generatedCount = 0
  /\ providerCalls = [p \in Pages |-> << >>]
  /\ notes = [p \in Pages |-> << >>]
  /\ batchNotes = {}
  /\ lastReported = 0
  /\ cbThrew = {}
  /\ deviations = 0
  /\ flaky = "none"

Init ==
  /\ ModuleLoaded
  /\ now = ProcessStart
  /\ wr = NoCall
  /\ proc = NoProcess
  /\ LibIdle
  /\ RunInit

\* batch.map(async (pageDef) => ...): every task of the batch runs up to its
\* first await, fs.stat on the skip-check path and fs.rm on the other
FirstAwait(name) ==
  IF ~mustRegenerate(name) /\ ~shouldForceRegenerate(generateOptions)
  THEN "stat" ELSE "rm"

LaunchBatch(pages, k) ==
  /\ task' = [p \in Pages |->
                IF p \in BatchOfPages(pages, k) THEN FirstAwait(p) ELSE task[p]]
  /\ batchIndex' = k
  /\ pc' = "await"

\* entry of generateAllPageContent up to the first await: the catalog is
\* filtered; an empty one returns at once, else the first batch starts
Start ==
  /\ pc = "start"
  /\ pagesToGenerate' = filterPageDefinitions(generateOptions)
  /\ IF Len(pagesToGenerate') = 0
       THEN pc' = "done" /\ UNCHANGED << task, batchIndex >>
       ELSE LaunchBatch(pagesToGenerate', 0)
  /\ UNCHANGED << rateVars, wr, proc, libVars, webVars >>
  /\ UNCHANGED << generateOptions, fs, fs0, content, retryIndex, retried,
                  completedCount, skippedCount, generatedCount, providerCalls,
                  notes, lastReported, batchNotes, cbThrew, deviations, flaky >>

\* mutant of Notify: the count reported is the page's place in the catalog
NotifyPosition(p, status) ==
  /\ notes' = [notes EXCEPT ![p] = Append(@, status)]
  /\ lastReported' =
       CHOOSE i \in 1..Len(pagesToGenerate) : pagesToGenerate[i] = p

\* onProgress(name, completedCount, total, status) is called
Notify(p, status) ==
  /\ notes' = [notes EXCEPT ![p] = Append(@, status)]
  /\ lastReported' = completedCount'

\* onProgress returns, or throws
Returns == UNCHANGED cbThrew /\ Nominal
Throws(p) == CanDeviate(p) /\ Deviate(p) /\ cbThrew' = cbThrew \cup { p }

\* generatePageWithClaude(pageDef, config) is called
IssueCall(p, pass) ==
  providerCalls' = [providerCalls EXCEPT ![p] = Append(@, pass)]

\* first pass, skip-check path: fs.stat, validatePageContent, then either the
\* skip or the fall through to generation; an onProgress that throws is
\* caught by the catch around the check and generation proceeds
Gate(p) ==
  /\ task[p] = "stat"
  /\ IF SkipTest(fs[p])
       THEN /\ completedCount' = completedCount + 1
            /\ skippedCount' = skippedCount + 1
            /\ Notify(p, "skipped")
            /\ \/ /\ Returns
                  /\ task' = [task EXCEPT ![p] = "skipped"]
                  /\ UNCHANGED providerCalls
               \/ /\ Throws(p)
                  /\ IssueCall(p, "first")
                  /\ task' = [task EXCEPT ![p] = "calling"]
       ELSE /\ IssueCall(p, "first")
            /\ task' = [task EXCEPT ![p] = "calling"]
            /\ Nominal
            /\ UNCHANGED << completedCount, skippedCount, notes,
                            lastReported, cbThrew >>
  /\ UNCHANGED << rateVars, wr, proc, libVars, webVars >>
  /\ UNCHANGED << generateOptions, pagesToGenerate, fs, fs0, pc, batchIndex,
                  content, retryIndex, retried, generatedCount, batchNotes >>

\* fs.rm(fullPath, {force: true}): the file is gone, or rm rejects
RmResult(f, ok) == IF ok THEN NoFile ELSE f

\* first pass, regenerate path: fs.rm; a rejection is caught and generation
\* proceeds
Remove(p) ==
  /\ task[p] = "rm"
  /\ \/ /\ fs' = [fs EXCEPT ![p] = RmResult(@, TRUE)]
        /\ Nominal
     \/ /\ CanDeviate(p) /\ Deviate(p)
        /\ Exists(fs[p])
        /\ fs' = [fs EXCEPT ![p] = RmResult(@, FALSE)]
  /\ IssueCall(p, "first")
  /\ task' = [task EXCEPT ![p] = "calling"]
  /\ UNCHANGED << rateVars, wr, proc, libVars, webVars >>
  /\ UNCHANGED << generateOptions, pagesToGenerate, fs0, pc, batchIndex,
                  content, retryIndex, retried, completedCount, skippedCount,
                  generatedCount, notes, lastReported, batchNotes, cbThrew >>

\* generatePageWithClaude settles: content, or an error thrown by withRetry
\* or by the response handling
CallReturn(p) ==
  /\ task[p] = "calling"
  /\ \/ /\ content' = [content EXCEPT ![p] = "good"]
        /\ task' = [task EXCEPT ![p] = "writing"]
        /\ Nominal
     \/ /\ CanDeviate(p) /\ Deviate(p)
        /\ content' = [content EXCEPT ![p] = "short"]
        /\ task' = [task EXCEPT ![p] = "writing"]
     \/ /\ CanDeviate(p) /\ Deviate(p)
        /\ task' = [task EXCEPT ![p] = "rejected"]
        /\ UNCHANGED content
  /\ UNCHANGED << rateVars, wr, proc, libVars, webVars >>
  /\ UNCHANGED << generateOptions, pagesToGenerate, fs, fs0, pc, batchIndex,
                  retryIndex, retried, completedCount, skippedCount,
                  generatedCount, providerCalls, notes,
                  lastReported, batchNotes, cbThrew >>

\* the provider call never settles: anthropic.messages.create is awaited
\* inside withRetry with no timeout around it
CallHangs(p) ==
  /\ task[p] = "calling"
  /\ CanDeviate(p) /\ Deviate(p)
  /\ task' = [task EXCEPT ![p] = "hung"]
  /\ UNCHANGED << rateVars, wr, proc, libVars, webVars >>
  /\ UNCHANGED << generateOptions, pagesToGenerate, fs, fs0, pc, batchIndex,
                  content, retryIndex, retried, completedCount, skippedCount,
                  generatedCount, providerCalls, notes,
                  lastReported, batchNotes, cbThrew >>

\* fs.mkdir, fs.writeFile, the counters and onProgress(..., 'generated');
\* whatever throws rejects the task
Write(p) ==
  /\ task[p] = "writing"
  /\ \/ /\ fs' = [fs EXCEPT ![p] = New(content[p])]
        /\ completedCount' = completedCount + 1
        /\ generatedCount' = generatedCount + 1
        /\ Notify(p, "generated")
        /\ \/ Returns /\ task' = [task EXCEPT ![p] = "generated"]
           \/ Throws(p) /\ task' = [task EXCEPT ![p] = "rejected"]
     \/ /\ CanDeviate(p) /\ Deviate(p)
        /\ task' = [task EXCEPT ![p] = "rejected"]
        /\ UNCHANGED << fs, completedCount, generatedCount, notes,
                        lastReported, cbThrew >>
  /\ content' = [content EXCEPT ![p] = "none"]
  /\ UNCHANGED << rateVars, wr, proc, libVars, webVars >>
  /\ UNCHANGED << generateOptions, pagesToGenerate, fs0, pc, batchIndex,
                  retryIndex, retried, skippedCount, providerCalls,
                  batchNotes >>

(***************************************************************************)
(* After Promise.allSettled: batch notification and the retry pass         *)
(***************************************************************************)
\* mutant of BatchSettled: resolves with the first task that settles
BatchAnySettled == \E p \in Batch(batchIndex) : task[p] \in Settled

\* Promise.allSettled(batchPromises) resolves
BatchSettled == \A p \in Batch(batchIndex) : task[p] \in Settled

\* positions of the batch after position i whose first-pass task was rejected
RejectedAfter(i) ==
  { j \in BatchPositions(total, batchIndex) :
      j > i /\ task[pagesToGenerate[j]] = "rejected" }

SetMin(S) == CHOOSE x \in S : \A y \in S : x <= y

\* after the retry loop: the sleep that ends a batch which is not the last,
\* or the final summary
AfterBatch ==
  IF batchIndex < NumBatches(total) - 1 THEN "postSleep" ELSE "done"

\* mutant of Continue: a rejected task makes the run throw
ContinueThrowOnFailure(i) ==
  IF RejectedAfter(i) # {}
    THEN pc' = "threw" /\ retryIndex' = 0
    ELSE /\ retryIndex' = 0
         /\ pc' = AfterBatch

\* the for loop over batchResults moves on from position i: the next rejected
\* page's fs.stat, or the loop ends: the sleep before the next batch, or the
\* final summary after the last one
Continue(i) ==
  IF RejectedAfter(i) # {}
    THEN pc' = "retryStat" /\ retryIndex' = SetMin(RejectedAfter(i))
    ELSE /\ retryIndex' = 0
         /\ pc' = AfterBatch

\* mutant of ReportsBatch: the threshold is one batch too high
ReportsBatchAboveTwo(n) == n > 2

\* onProgress && batches.length > 1 (a callback is always passed here)
ReportsBatch(n) == n > 1

\* onProgress(`batch-${N}`, completedCount, total, 'batch-complete')
BatchNote(N) ==
  [id |-> N, completed |-> completedCount, total |-> total,
   status |-> "batch-complete"]

\* Promise.allSettled resolves; 'batch-N' is reported when there is more
\* than one batch; an onProgress that throws here is caught nowhere and
\* rejects generateAllPageContent
AllSettled ==
  /\ pc = "await"
  /\ BatchSettled
  /\ IF ReportsBatch(NumBatches(total))
       THEN /\ batchNotes' = batchNotes \cup { BatchNote(batchIndex + 1) }
            /\ lastReported' = completedCount
            /\ \/ /\ UNCHANGED << cbThrew, deviations >>
                  /\ Continue(0)
               \/ /\ deviations < MaxDeviations
                  /\ deviations' = deviations + 1
                  /\ cbThrew' = cbThrew \cup { "batch" }
                  /\ pc' = "threw"
                  /\ UNCHANGED retryIndex
       ELSE /\ Continue(0)
            /\ UNCHANGED << batchNotes, lastReported, cbThrew, deviations >>
  /\ UNCHANGED << rateVars, wr, proc, libVars, webVars >>
  /\ UNCHANGED << generateOptions, pagesToGenerate, fs, fs0, batchIndex, task,
                  content, retried, completedCount, skippedCount,
                  generatedCount, providerCalls, notes, flaky >>

failedPage == pagesToGenerate[retryIndex]

\* retry pass: fs.stat and validatePageContent of the failed page's file; a
\* valid file makes the page 'skipped'; an onProgress that throws is caught
\* by the catch around the check and the retry generation proceeds
RetryStat ==
  /\ pc = "retryStat"
  /\ IF SkipTest(fs[failedPage])
       THEN /\ completedCount' = completedCount + 1
            /\ skippedCount' = skippedCount + 1
            /\ Notify(failedPage, "skipped")
            /\ retried' = [retried EXCEPT ![failedPage] = "skipped"]
            /\ \/ /\ Returns
                  /\ Continue(retryIndex)
                  /\ UNCHANGED providerCalls
               \/ /\ Throws(failedPage)
                  /\ IssueCall(failedPage, "retry")
                  /\ pc' = "retryCalling"
                  /\ UNCHANGED retryIndex
       ELSE /\ IssueCall(failedPage, "retry")
            /\ pc' = "retryCalling"
            /\ Nominal
            /\ UNCHANGED << completedCount, skippedCount, notes,
                            lastReported, cbThrew,
                            retried, retryIndex >>
  /\ UNCHANGED << rateVars, wr, proc, libVars, webVars >>
  /\ UNCHANGED << generateOptions, pagesToGenerate, fs, fs0, batchIndex, task,
                  content, generatedCount, batchNotes >>

\* the retry's generatePageWithClaude settles; an error is caught and logged
RetryCallReturn ==
  /\ pc = "retryCalling"
  /\ \/ /\ content' = [content EXCEPT ![failedPage] = "good"]
        /\ pc' = "retryWriting"
        /\ Nominal
        /\ UNCHANGED << retried, retryIndex >>
     \/ /\ CanDeviate(failedPage) /\ Deviate(failedPage)
        /\ content' = [content EXCEPT ![failedPage] = "short"]
        /\ pc' = "retryWriting"
        /\ UNCHANGED << retried, retryIndex >>
     \/ /\ CanDeviate(failedPage) /\ Deviate(failedPage)
        /\ retried' = [retried EXCEPT ![failedPage] = "failed"]
        /\ Continue(retryIndex)
        /\ UNCHANGED content
  /\ UNCHANGED << rateVars, wr, proc, libVars, webVars >>
  /\ UNCHANGED << generateOptions, pagesToGenerate, fs, fs0, batchIndex, task,
                  completedCount, skippedCount, generatedCount, providerCalls,
                  notes, lastReported, batchNotes, cbThrew >>

\* the retry's provider call never settles
RetryCallHangs ==
  /\ pc = "retryCalling"
  /\ CanDeviate(failedPage) /\ Deviate(failedPage)
  /\ pc' = "retryHung"
  /\ UNCHANGED << rateVars, wr, proc, libVars, webVars >>
  /\ UNCHANGED << generateOptions, pagesToGenerate, fs, fs0, batchIndex, task,
                  content, retryIndex, retried, completedCount, skippedCount,
                  generatedCount, providerCalls, notes,
                  lastReported, batchNotes, cbThrew >>

\* the retry's fs.mkdir, fs.writeFile, counters and onProgress; whatever is
\* thrown is caught and logged, and the loop goes on
RetryWrite ==
  /\ pc = "retryWriting"
  /\ \/ /\ fs' = [fs EXCEPT ![failedPage] = New(content[failedPage])]
        /\ completedCount' = completedCount + 1
        /\ generatedCount' = generatedCount + 1
        /\ Notify(failedPage, "generated")
        /\ retried' = [retried EXCEPT ![failedPage] = "generated"]
        /\ \/ Returns
           \/ Throws(failedPage)
     \/ /\ CanDeviate(failedPage) /\ Deviate(failedPage)
        /\ retried' = [retried EXCEPT ![failedPage] = "failed"]
        /\ UNCHANGED << fs, completedCount, generatedCount, notes,
                        lastReported, cbThrew >>
  /\ content' = [content EXCEPT ![failedPage] = "none"]
  /\ Continue(retryIndex)
  /\ UNCHANGED << rateVars, wr, proc, libVars, webVars >>
  /\ UNCHANGED << generateOptions, pagesToGenerate, fs0, batchIndex, task,
                  skippedCount, providerCalls, batchNotes >>

\* the sleep that ends a batch which is not the last one is over: the loop
\* takes the next batch and sleeps its adaptive delay
PostSleep ==
  /\ pc = "postSleep"
  /\ batchIndex' = batchIndex + 1
  /\ pc' = "preSleep"
  /\ UNCHANGED << rateVars, wr, proc, libVars, webVars >>
  /\ UNCHANGED << generateOptions, pagesToGenerate, fs, fs0, task, content,
                  retryIndex, retried, completedCount, skippedCount,
                  generatedCount, providerCalls, notes,
                  lastReported, batchNotes, cbThrew,
                  deviations, flaky >>

\* the adaptive delay of a batch after the first is over: its tasks start
PreSleep ==
  /\ pc = "preSleep"
  /\ LaunchBatch(pagesToGenerate, batchIndex)
  /\ UNCHANGED << rateVars, wr, proc, libVars, webVars >>
  /\ UNCHANGED << generateOptions, pagesToGenerate, fs, fs0, content,
                  retryIndex, retried, completedCount, skippedCount,
                  generatedCount, providerCalls, notes,
                  lastReported, batchNotes, cbThrew,
                  deviations, flaky >>

Next ==
  \/ Start
  \/ \E p \in Pages : Gate(p)
  \/ \E p \in Pages : Remove(p)
  \/ \E p \in Pages : CallReturn(p)
  \/ \E p \in Pages : CallHangs(p)
  \/ \E p \in Pages : Write(p)
  \/ AllSettled
  \/ RetryStat
  \/ RetryCallReturn
  \/ RetryCallHangs
  \/ RetryWrite
  \/ PostSleep
  \/ PreSleep

Spec == Init /\ [][Next]_vars

TypeOK ==
  /\ pc \in { "start", "await", "retryStat", "retryCalling", "retryHung",
              "retryWriting", "postSleep", "preSleep", "done", "threw" }
  /\ task \in [Pages -> { "idle", "stat", "rm", "calling", "hung", "writing" }
                          \cup Settled]
  /\ completedCount \in 0..(2 * Cardinality(Pages))

\* final summary of a run: "All ${total} pages complete!", the generated
\* count and the skipped count
Summary ==
  [pagesComplete |-> total, generated |-> generatedCount,
   skipped |-> skippedCount]

(***************************************************************************)
(* withRetry                                                               *)
(***************************************************************************)
\* no run of generateAllPageContent is being followed
RunIdle ==
  /\ RunInit
  /\ generateOptions = NoOptions
  /\ fs = FreshTree

\* values of maxRetries withRetry is called with (MAX_RETRIES: the default)
RetryBudgets == { 0, 1, 3, MAX_RETRIES }

\* time, in ms, a call of fn takes to settle
CallMillis == { 800, 30000 }

\* messages, as sequences of characters
Msg_rate == << "r", "a", "t", "e" >>
Msg_overloaded == << "o", "v", "e", "r", "l", "o", "a", "d", "e", "d" >>
Msg_Overloaded == << "O", "v", "e", "r", "l", "o", "a", "d", "e", "d" >>
Msg_rate_limit == << "r", "a", "t", "e", " ", "l", "i", "m", "i", "t" >>
Msg_generate == << "g", "e", "n", "e", "r", "a", "t", "e" >>
Msg_timeout == << "t", "i", "m", "e", "o", "u", "t" >>
Msg_Rate == << "R", "a", "t", "e" >>

\* errors fn rejects with: status (0: none) and message (<< >>: none)
Errors ==
  { [status |-> 429, message |-> Msg_rate_limit],
    [status |-> 529, message |-> Msg_Overloaded],
    [status |-> 0, message |-> Msg_overloaded],
    [status |-> 500, message |-> Msg_generate],
    [status |-> 500, message |-> Msg_timeout],
    [status |-> 400, message |-> << >>],
    [status |-> 0, message |-> Msg_Rate] }

\* let lastError: Error | null = null
NoError == [status |-> -1, message |-> << >>]

\* String.prototype.includes
Includes(message, pattern) ==
  \E i \in 1..(Len(message) - Len(pattern) + 1) :
    SubSeq(message, i, i + Len(pattern) - 1) = pattern

\* mutant of isRateLimitError: every error is taken for a rate limit
RetryEverything(error) == TRUE

\* isRateLimitError of withRetry
isRateLimitError(error) ==
  \/ error.status = 429
  \/ error.status = 529
  \/ Includes(error.message, Msg_rate)
  \/ Includes(error.message, Msg_overloaded)

\* mutant of ShouldRetry: the last attempt is retried too
ShouldRetryThrough(error, attempt, maxRetries) ==
  isRateLimitError(error) /\ attempt <= maxRetries

\* if (isRateLimitError && attempt < maxRetries)
ShouldRetry(error, attempt, maxRetries) ==
  isRateLimitError(error) /\ attempt < maxRetries

RECURSIVE Pow2(_)
\* Math.pow(2, n)
Pow2(n) == IF n = 0 THEN 1 ELSE 2 * Pow2(n - 1)

\* const delay = INITIAL_RETRY_DELAY_MS * Math.pow(2, attempt)
RetryDelay(attempt) == INITIAL_RETRY_DELAY_MS * Pow2(attempt)

\* Date.now() of an earlier rate-limit hit of the process, if any
EarlierHits == { 0, ProcessStart - INITIAL_RETRY_DELAY_MS }

RetryInit ==
  /\ lastRateLimitHit \in EarlierHits
  /\ consecutiveRateLimitHits = 0
  /\ now = ProcessStart
  /\ wr = NoCall
  /\ proc = NoProcess
  /\ LibIdle
  /\ RunIdle

\* withRetry(fn, pageName, maxRetries) is called; the loop starts at attempt
\* 0 and calls fn. The frame keeps, besides the locals, what the call did:
\* calls of fn, delays slept, the first and the latest error fn rejected
\* with, the retryable errors seen and the time of the latest one
WithRetry ==
  /\ wr.pc = "none"
  /\ \E maxRetries \in RetryBudgets :
       wr' = [pc |-> "fn", maxRetries |-> maxRetries, attempt |-> 0,
              lastError |-> NoError, thrown |-> NoError, calls |-> 1,
              sleeps |-> << >>, first |-> NoError, observed |-> NoError,
              seen |-> 0, seenAt |-> 0, hit0 |-> lastRateLimitHit]
  /\ UNCHANGED << webVars, libVars, runVars, rateVars, proc >>

\* fn resolves: withRetry returns its value
FnResolves ==
  /\ wr.pc = "fn"
  /\ \E d \in CallMillis : now' = now + d
  /\ wr' = [wr EXCEPT !.pc = "resolved"]
  /\ UNCHANGED << webVars, libVars, runVars, lastRateLimitHit,
                  consecutiveRateLimitHits, proc >>

\* fn rejects: the catch block; a rate-limit error before the last attempt
\* records the hit and starts the backoff sleep, any other error is thrown
FnRejects ==
  /\ wr.pc = "fn"
  /\ \E d \in CallMillis : now' = now + d
  /\ \E error \in Errors :
       LET seen == [wr EXCEPT
                      !.lastError = error,
                      !.observed = error,
                      !.first = IF @ = NoError THEN error ELSE @,
                      !.seen = IF isRateLimitError(error) THEN @ + 1 ELSE @,
                      !.seenAt = IF isRateLimitError(error) THEN now' ELSE @]
       IN IF ShouldRetry(error, wr.attempt, wr.maxRetries)
            THEN /\ lastRateLimitHit' = now'
                 /\ wr' = [seen EXCEPT
                             !.sleeps = Append(@, RetryDelay(wr.attempt)),
                             !.pc = "sleep"]
            ELSE /\ UNCHANGED lastRateLimitHit
                 /\ wr' = [seen EXCEPT !.thrown = error, !.pc = "rejected"]
  /\ UNCHANGED << webVars, libVars, runVars, consecutiveRateLimitHits, proc >>

\* the backoff sleep is over: continue; attempt++ and the loop test; fn is
\* called again, or the loop is over and lastError is thrown
SleepOver ==
  /\ wr.pc = "sleep"
  /\ now' = now + wr.sleeps[Len(wr.sleeps)]
  /\ IF wr.attempt + 1 <= wr.maxRetries
       THEN wr' = [wr EXCEPT !.attempt = @ + 1, !.calls = @ + 1, !.pc = "fn"]
       ELSE wr' = [wr EXCEPT !.attempt = @ + 1, !.thrown = wr.lastError,
                             !.pc = "rejected"]
  /\ UNCHANGED << webVars, libVars, runVars, lastRateLimitHit,
                  consecutiveRateLimitHits, proc >>

RetryNext ==
  \/ WithRetry
  \/ FnResolves
  \/ FnRejects
  \/ SleepOver

RetrySpec == RetryInit /\ [][RetryNext]_vars

(***************************************************************************)
(* The process: runs of generateAllPageContent and the delays between      *)
(* their batches                                                           *)
(***************************************************************************)
\* runs of generateAllPageContent the process makes, one after the other
MaxRuns == 2

\* time, in ms, the tasks of a batch and its retry pass take
BatchMillis == { 100000 }

\* age, in ms, at the end of a batch of the latest rate-limit hit a call of
\* withRetry of the batch recorded
HitAges == { 0, 45000, 90000 }

\* const delay = timeSinceRateLimit < 60000 ? BATCH_DELAY_MS : 10000
EndDelay(t, hit) == IF t - hit < 60000 THEN BATCH_DELAY_MS ELSE 10000

\* const adaptiveDelay = consecutiveRateLimitHits > 2 ? BATCH_DELAY_MS * 2
\*   : timeSinceLastRateLimit < 60000 ? BATCH_DELAY_MS * 1.5 : BATCH_DELAY_MS
AdaptiveDelay(t, hit, consecutive) ==
  IF consecutive > 2 THEN BATCH_DELAY_MS * 2
  ELSE IF t - hit < 60000 THEN (BATCH_DELAY_MS * 3) \div 2
  ELSE BATCH_DELAY_MS

\* mutant of EntryRateState: the state is reset when a run starts
EntryRateStateReset ==
  /\ lastRateLimitHit' = 0
  /\ consecutiveRateLimitHits' = 0

\* what the entry of generateAllPageContent does to the rate-limit state
EntryRateState == UNCHANGED << lastRateLimitHit, consecutiveRateLimitHits >>

\* the process has loaded the module and called nothing yet. proc keeps the
\* position of the current run and, for the properties, the delays slept
\* since the last batch ended (between), the delay due when it ended (due),
\* the rate-limit state the run started with, and the latest hit recorded
ProcInit ==
  /\ ModuleLoaded
  /\ now = ProcessStart
  /\ wr = NoCall
  /\ LibIdle
  /\ RunIdle
  /\ proc = [pc |-> "idle", runs |-> 0, batches |-> 0, batchIndex |-> 0,
             between |-> << >>, due |-> 0, hitAtStart |-> 0,
             hitsAtStart |-> 0, latestHit |-> 0]

\* generateAllPageContent is called: the catalog is filtered and cut in
\* batches; with no page it returns, else the tasks of the first batch start
RunCalled ==
  /\ proc.pc = "idle"
  /\ proc.runs < MaxRuns
  /\ EntryRateState
  /\ \E options \in GenerateOptions :
       LET n == NumBatches(getTotalPages(options))
       IN proc' = [proc EXCEPT
                     !.pc = IF n = 0 THEN "idle" ELSE "batch",
                     !.runs = @ + 1,
                     !.batches = n,
                     !.batchIndex = 0,
                     !.between = << >>,
                     !.due = 0,
                     !.hitAtStart = lastRateLimitHit',
                     !.hitsAtStart = consecutiveRateLimitHits']
  /\ UNCHANGED << webVars, libVars, runVars, now, wr >>

\* the tasks of the batch and its retry pass run; the calls of withRetry
\* they make may record rate-limit hits (lastRateLimitHit = Date.now()).
\* Then the run ends, or the sleep that ends the batch starts
BatchRuns ==
  /\ proc.pc = "batch"
  /\ \E d \in BatchMillis :
       /\ now' = now + d
       /\ \/ UNCHANGED lastRateLimitHit
          \/ \E age \in HitAges : age <= d /\ lastRateLimitHit' = now' - age
  /\ UNCHANGED consecutiveRateLimitHits
  /\ LET last == [proc EXCEPT !.latestHit = lastRateLimitHit']
     IN IF proc.batchIndex < proc.batches - 1
          THEN proc' =
                 [last EXCEPT
                    !.pc = "endSleep",
                    !.due = AdaptiveDelay(now', lastRateLimitHit',
                                          consecutiveRateLimitHits),
                    !.between = << EndDelay(now', lastRateLimitHit') >>]
          ELSE proc' = [last EXCEPT !.pc = "idle"]
  /\ UNCHANGED << webVars, libVars, runVars, wr >>

\* the sleep that ends a batch is over; the loop takes the next batch and
\* sleeps its adaptive delay
EndSleepOver ==
  /\ proc.pc = "endSleep"
  /\ now' = now + proc.between[1]
  /\ proc' = [proc EXCEPT
                !.pc = "adaptiveSleep",
                !.batchIndex = @ + 1,
                !.between =
                  Append(@, AdaptiveDelay(now', lastRateLimitHit,
                                          consecutiveRateLimitHits))]
  /\ UNCHANGED << webVars, libVars, runVars, lastRateLimitHit,
                  consecutiveRateLimitHits, wr >>

\* the adaptive delay is over: the tasks of the batch start
AdaptiveSleepOver ==
  /\ proc.pc = "adaptiveSleep"
  /\ now' = now + proc.between[2]
  /\ proc' = [proc EXCEPT !.pc = "batch"]
  /\ UNCHANGED << webVars, libVars, runVars, lastRateLimitHit,
                  consecutiveRateLimitHits, wr >>

ProcNext ==
  \/ RunCalled
  \/ BatchRuns
  \/ EndSleepOver
  \/ AdaptiveSleepOver

ProcSpec == ProcInit /\ [][ProcNext]_vars

(***************************************************************************)
(* Properties                                                              *)
(***************************************************************************)
\* the always-regenerate category as the specification lists it
AlwaysRegenerated ==
  { "state-programs", "lifeline-program", "acp-program", "tribal-programs",
    "emergency-broadband", "providers", "programs", "faq", "states-index" }

Forced == generateOptions.defined /\ generateOptions.forceRegenerate

PosOf(p) == CHOOSE i \in 1..total : pagesToGenerate[i] = p
BatchOf(p) == (PosOf(p) - 1) \div 3

Calls(p) == Len(providerCalls[p])
ReportedSkippedFirst(p) == notes[p] # << >> /\ Head(notes[p]) = "skipped"
PermanentlyFailed(p) == task[p] = "rejected" /\ retried[p] = "failed"
NoHang == pc # "retryHung" /\ \A p \in Pages : task[p] # "hung"

\* the run starts on the output of a run that generated valid output for
\* every page (and, for FirstRunAccepted, output larger than 500 bytes)
FirstRunValid == \A p \in Pages : validatePageContent(fs0[p])
FirstRunAccepted ==
  \A p \in Pages : validatePageContent(fs0[p]) /\ StatSize(fs0[p]) > 500

C2_ForceOverride ==
  Forced =>
    /\ \A p \in Pages :
         /\ task[p] \notin { "stat", "skipped" }
         /\ task[p] \notin { "idle", "rm" } =>
              Calls(p) >= 1 /\ Head(providerCalls[p]) = "first"
         /\ ReportedSkippedFirst(p) => task[p] = "rejected"
    /\ pc = "done" => \A p \in RunPages : Calls(p) >= 1

C2_Witness ==
  /\ Forced /\ fs0 = CompleteTree /\ pc = "done" /\ total = 13
  /\ \A p \in RunPages : task[p] = "generated" /\ fs[p] = New("good")

\* C3: a page of the always-regenerate category never takes the skip path
\* in the first pass, whatever file exists and without forceRegenerate: its
\* task goes from the deletion to a provider call.
C3_AlwaysRegenerate ==
  \A p \in AlwaysRegenerated :
    /\ task[p] \notin { "stat", "skipped" }
    /\ task[p] \notin { "idle", "rm" } =>
         Calls(p) >= 1 /\ Head(providerCalls[p]) = "first"
    /\ ReportedSkippedFirst(p) => task[p] = "rejected"

C3_Witness ==
  /\ ~Forced
  /\ \A p \in AlwaysRegenerated :
       /\ validatePageContent(fs0[p]) /\ StatSize(fs0[p]) > 500
       /\ task[p] = "generated" /\ fs[p] = New("good")

\* C4 as stated: on the always-regenerate / force path no file from before
\* the run is at the page's path while its provider call is in flight, nor
\* after the run.
C4_StaleDeletedBeforeCall ==
  \A p \in Pages :
    (p \in AlwaysRegenerated \/ Forced) =>
      /\ task[p] \in { "calling", "hung" } => fs[p].origin # "old"
      /\ (pc = "done" /\ p \in RunPages) => fs[p].origin # "old"

\* C5 as stated: outside the always-regenerate category and without
\* forceRegenerate the first pass skips exactly when a file exists and
\* validates; a skipped page gets no provider call and keeps its file.
\* (Stated for runs in which provider, file system and onProgress answer
\* nominally.)
C5_SkipIffValid ==
  \A p \in Pages :
    (p \notin AlwaysRegenerated /\ ~Forced /\ task[p] \notin { "idle", "stat" }
       /\ deviations = 0) =>
      /\ ReportedSkippedFirst(p) <=>
           (Exists(fs0[p]) /\ validatePageContent(fs0[p]))
      /\ ReportedSkippedFirst(p) => Calls(p) = 0 /\ fs[p] = fs0[p]

\* C6: only the page whose own calls fail is rejected; a failed page never
\* makes the run throw or stop; at the end of the run every other page is
\* skipped or generated.
C6_BatchIsolation ==
  /\ \A p \in Pages : task[p] = "rejected" => p = flaky
  /\ pc = "threw" => "batch" \in cbThrew
  /\ pc = "done" =>
       \A p \in RunPages \ { flaky } : task[p] \in { "skipped", "generated" }
  /\ (NoHang /\ pc \notin { "done", "threw" }) => ENABLED Next

C6_Witness ==
  /\ pc = "done" /\ total = 13
  /\ PermanentlyFailed("state-programs")
  /\ \A p \in RunPages \ { "state-programs" } :
       task[p] \in { "skipped", "generated" }

\* C7: a task that has started belongs to the current batch or to an earlier
\* one, and every task of an earlier batch has settled and, when rejected,
\* has been through the retry pass; no provider call is issued for a page
\* whose task has not started.
C7_Barrier ==
  \A p \in Pages :
    /\ task[p] # "idle" =>
         /\ p \in RunPages
         /\ BatchOf(p) <= batchIndex
         /\ BatchOf(p) < batchIndex =>
              /\ task[p] \in Settled
              /\ task[p] = "rejected" => retried[p] # "none"
    /\ Calls(p) >= 1 => task[p] # "idle"

C7_Witness ==
  /\ batchIndex = 1
  /\ \E p \in Batch(1) : task[p] = "calling"
  /\ \E q \in Batch(0) : task[q] = "rejected" /\ retried[q] = "generated"

\* C8 as stated: a page whose first pass failed gets one more generation
\* attempt after a fresh check of its file, and a valid file found by that
\* check makes it 'skipped' instead of regenerated; at most two attempts.
C8_OneRetryAfterCheck ==
  \A p \in Pages :
    /\ providerCalls[p] \in { << >>, << "first" >>, << "first", "retry" >> }
    /\ retried[p] # "none" => task[p] = "rejected"
    /\ (task[p] = "rejected" /\ (BatchOf(p) < batchIndex \/ pc = "done")) =>
         retried[p] # "none"
    /\ retried[p] = "skipped" => Calls(p) <= 1
    /\ retried[p] \in { "generated", "failed" } =>
         providerCalls[p] = << "first", "retry" >>

\* C9 as stated: at the end of a run every page has exactly one final
\* outcome reported: one 'skipped' or 'generated' notification for a
\* completed page, and for a permanently failed page none of these and a
\* summary that does not count it among the complete pages.  (Stated for
\* runs whose onProgress never throws.)
C9_EveryOutcomeReported ==
  (pc = "done" /\ total > 0 /\ cbThrew = {}) =>
    /\ \A p \in RunPages :
         IF PermanentlyFailed(p) THEN notes[p] = << >> ELSE Len(notes[p]) = 1
    /\ Summary.pagesComplete =
         Cardinality({ p \in RunPages : ~PermanentlyFailed(p) })

\* C10 as stated: a run always completes: in every state that is not the
\* end of the run (the summary, or the rejection of the run) a step of the
\* run is possible, also when a provider call never returns.
C10_RunCompletes == pc \in { "done", "threw" } \/ ENABLED Next

\* C11: generateAllPageContent rejects only for missing configuration: no
\* failure that arises while a page is processed propagates out of it, and
\* the run never ends rejected (configuration is not at stake in a run that
\* has started).
C11_NeverRejects == pc # "threw"

RECURSIVE NotesOf(_)
\* number of page notifications made to onProgress for the pages of S
NotesOf(S) ==
  IF S = {} THEN 0
  ELSE LET p == CHOOSE x \in S : TRUE
       IN Len(notes[p]) + NotesOf(S \ { p })

\* batch k (0-based) is complete: Promise.allSettled of its tasks resolved
BatchComplete(k) ==
  \/ k < batchIndex
  \/ k = batchIndex /\ pc \notin { "start", "await", "preSleep" }

\* pages of the batches 0..k whose first-pass task completed its page
CompletedUpTo(k) ==
  { p \in RunPages : BatchOf(p) <= k /\ task[p] \in { "skipped", "generated" } }

C19_CountMonotone == [][lastReported' >= lastReported]_vars

\* a page was notified before a page of its batch that precedes it in the
\* catalog
C19_Witness ==
  \E p, q \in RunPages :
    /\ BatchOf(p) = BatchOf(q)
    /\ PosOf(p) < PosOf(q)
    /\ notes[p] = << >>
    /\ notes[q] # << >>
    /\ lastReported > 0

\* page generation tasks, and provider calls, in flight
TasksInFlight ==
  { p \in Pages : task[p] \in { "stat", "rm", "calling", "hung", "writing" } }
CallsInFlight ==
  Cardinality({ p \in Pages : task[p] \in { "calling", "hung" } })
  + (IF pc \in { "retryCalling", "retryHung" } THEN 1 ELSE 0)

\* a catalog of n pages is cut into consecutive batches of PARALLEL_WORKERS
\* pages, the last one possibly smaller, every place in exactly one batch
Partitioned ==
  [n \in 0..Len(PAGE_DEFINITIONS) |->
     /\ \A i \in 1..n :
          Cardinality({ k \in 0..(NumBatches(n) - 1) :
                          i \in BatchPositions(n, k) }) = 1
     /\ \A k \in 0..(NumBatches(n) - 1) :
          LET size == Cardinality(BatchPositions(n, k))
          IN /\ size >= 1
             /\ k < NumBatches(n) - 1 => size = PARALLEL_WORKERS
             /\ size <= PARALLEL_WORKERS
             /\ k > 0 =>
                  \A i \in BatchPositions(n, k - 1) :
                    \A j \in BatchPositions(n, k) : i < j]

\* C20: the filtered catalog is cut in catalog order into consecutive batches
\* of exactly PARALLEL_WORKERS pages, only the last one possibly smaller, each
\* page in exactly one batch; at every moment at most PARALLEL_WORKERS page
\* tasks and provider calls are in flight.
C20_BoundedConcurrency ==
  /\ Partitioned[total]
  /\ Cardinality(TasksInFlight) <= PARALLEL_WORKERS
  /\ CallsInFlight <= PARALLEL_WORKERS
  /\ TasksInFlight \subseteq Batch(batchIndex)

\* the provider calls of the three pages of a batch are in flight together
C20_Witness ==
  /\ Cardinality({ p \in Pages : task[p] = "calling" }) = PARALLEL_WORKERS
  /\ batchIndex = 1

\* a retryable error as the specification words it: status 429 or 529, or a
\* message containing 'rate' or 'overloaded'
Retryable(error) ==
  \/ error.status \in { 429, 529 }
  \/ \E i \in 1..(Len(error.message) - 3) :
       SubSeq(error.message, i, i + 3) = << "r", "a", "t", "e" >>
  \/ \E i \in 1..(Len(error.message) - 9) :
       SubSeq(error.message, i, i + 9) =
         << "o", "v", "e", "r", "l", "o", "a", "d", "e", "d" >>

\* C12: an error of fn that is not retryable propagates immediately: when it
\* is the first error, fn was invoked exactly once, withRetry rejects with
\* it, no sleep happened and the rate-limit state is unchanged; at a later
\* attempt no sleep follows it.
C12_FatalPropagates ==
  /\ (wr.pc # "none" /\ wr.first # NoError /\ ~Retryable(wr.first)) =>
       /\ wr.pc = "rejected"
       /\ wr.thrown = wr.first
       /\ wr.calls = 1
       /\ wr.sleeps = << >>
       /\ lastRateLimitHit = wr.hit0
       /\ consecutiveRateLimitHits = 0
  /\ (wr.pc # "none" /\ wr.observed # NoError /\ ~Retryable(wr.observed)) =>
       /\ wr.pc = "rejected"
       /\ wr.thrown = wr.observed
       /\ Len(wr.sleeps) = wr.calls - 1

\* withRetry with retries left rejected at once with a status 500 'timeout'
C12_Witness ==
  /\ wr.pc = "rejected"
  /\ wr.maxRetries = MAX_RETRIES
  /\ wr.first = [status |-> 500, message |-> Msg_timeout]
  /\ wr.calls = 1

\* C13: when every attempt fails with a retryable error, fn is invoked at
\* most maxRetries + 1 times, one backoff sleep separates consecutive
\* invocations, and withRetry then rejects with the error of the last
\* invocation.
C13_RetriesExhausted ==
  wr.pc # "none" =>
    /\ wr.calls <= wr.maxRetries + 1
    /\ Len(wr.sleeps) = (IF wr.pc = "sleep" THEN wr.calls ELSE wr.calls - 1)
    /\ wr.pc = "rejected" =>
         /\ wr.thrown = wr.observed
         /\ Retryable(wr.thrown) => wr.calls = wr.maxRetries + 1

\* the default budget is used up: nine invocations, eight sleeps, rejected
C13_Witness ==
  /\ wr.pc = "rejected"
  /\ wr.maxRetries = MAX_RETRIES
  /\ wr.calls = MAX_RETRIES + 1
  /\ Len(wr.sleeps) = MAX_RETRIES
  /\ wr.seen = MAX_RETRIES + 1

\* C14: the delay slept after the n-th failed attempt (0-indexed) is
\* INITIAL_RETRY_DELAY_MS * 2^n capped at MAX_RETRY_DELAY_MS: 5000, 10000,
\* 20000 ms first, and no delay above 60000 ms.
C14_BackoffCapped ==
  wr.pc # "none" =>
    \A n \in 0..(Len(wr.sleeps) - 1) :
      /\ wr.sleeps[n + 1] =
           Min(INITIAL_RETRY_DELAY_MS * Pow2(n), MAX_RETRY_DELAY_MS)
      /\ wr.sleeps[n + 1] <= 60000
      /\ n = 0 => wr.sleeps[n + 1] = 5000
      /\ n = 1 => wr.sleeps[n + 1] = 10000
      /\ n = 2 => wr.sleeps[n + 1] = 20000

\* C15: on every retryable error withRetry observes, the one on the last
\* allowed attempt included, lastRateLimitHit is set to the current time and
\* consecutiveRateLimitHits is incremented, before any sleep.
C15_RateStateUpdated ==
  (wr.pc # "none" /\ wr.seen > 0) =>
    /\ lastRateLimitHit = wr.seenAt
    /\ consecutiveRateLimitHits = wr.seen

RECURSIVE SumOf(_)
SumOf(s) == IF s = << >> THEN 0 ELSE Head(s) + SumOf(Tail(s))

\* C16: between the end of batch k and the launch of the tasks of batch k+1
\* the orchestrator sleeps exactly the adaptive inter-batch delay computed
\* from the rate-limit state (2 x BATCH_DELAY_MS above 2 consecutive hits,
\* else 1.5 x BATCH_DELAY_MS for a hit within the last 60 s, else
\* BATCH_DELAY_MS); no delay precedes the first batch.
C16_AdaptiveDelayOnly ==
  proc.pc = "batch" =>
    IF proc.batchIndex = 0
      THEN proc.between = << >>
      ELSE /\ SumOf(proc.between) = proc.due
           /\ proc.due \in { BATCH_DELAY_MS, (3 * BATCH_DELAY_MS) \div 2,
                             2 * BATCH_DELAY_MS }

outputPathShared(name) ==
  IF name \in { "programs", "state-programs" } THEN "src/pages/programs.astro"
  ELSE IF name = "states-index" THEN "src/pages/states/index.astro"
  ELSE "src/pages/other.astro"

\* outputPath of the PAGE_DEFINITIONS entry of a name
outputPath(name) ==
  CASE name = "state-programs" -> "src/pages/state-programs.astro"
    [] name = "lifeline-program" -> "src/pages/lifeline-program.astro"
    [] name = "acp-program" -> "src/pages/acp-program.astro"
    [] name = "faq" -> "src/pages/faq.astro"
    [] name = "programs" -> "src/pages/programs.astro"
    [] name = "providers" -> "src/pages/providers.astro"
    [] name = "eligibility" -> "src/pages/eligibility.astro"
    [] name = "tribal-programs" -> "src/pages/tribal-programs.astro"
    [] name = "emergency-broadband" -> "src/pages/emergency-broadband.astro"
    [] name = "contact" -> "src/pages/contact.astro"
    [] name = "apply" -> "src/pages/apply.astro"
    [] name = "states-index" -> "src/pages/states/index.astro"
    [] name = "404" -> "src/pages/404.astro"

\* output path of every place of the catalog
PathAt == [i \in 1..Len(PAGE_DEFINITIONS) |-> outputPath(PAGE_DEFINITIONS[i])]

\* names and output paths of the catalog are pairwise distinct
CatalogDistinct ==
  \A i, j \in 1..Len(PAGE_DEFINITIONS) :
    i # j => PAGE_DEFINITIONS[i] # PAGE_DEFINITIONS[j] /\ PathAt[i] # PathAt[j]

\* positions of the catalog whose task is writing its file: first-pass tasks
\* at fs.writeFile, and the retry pass at its fs.writeFile
Writers ==
  { i \in 1..Len(PAGE_DEFINITIONS) : task[PAGE_DEFINITIONS[i]] = "writing" }
  \cup (IF pc = "retryWriting"
          THEN { i \in 1..Len(PAGE_DEFINITIONS) :
                   PAGE_DEFINITIONS[i] = failedPage }
          ELSE {})

\* C21: the page catalog has pairwise distinct names and pairwise distinct
\* output paths, and at any moment of a run at most one task (first-pass
\* task or retry attempt) writes a given output path.
C21_OneWriterPerPath ==
  /\ CatalogDistinct
  /\ \A i, j \in Writers : i # j => PathAt[i] # PathAt[j]
  /\ pc = "retryWriting" =>
       \A p \in Pages : task[p] \notin { "writing", "calling", "stat", "rm" }

\* two tasks of a batch are writing their files at the same time
C21_Witness ==
  \E p, q \in RunPages :
    p # q /\ task[p] = "writing" /\ task[q] = "writing"

\* place of a page in the catalog
CatalogPos ==
  [name \in Pages |->
     CHOOSE i \in 1..Len(PAGE_DEFINITIONS) : PAGE_DEFINITIONS[i] = name]

\* getTotalPages of every value of the options
TotalPages == [options \in GenerateOptions |-> getTotalPages(options)]

\* catalog pages by the category flag that gates them
CategoryFlag(options, name) ==
  IF name \in { "faq", "programs", "providers", "eligibility", "contact",
                "apply", "states-index", "404" }
    THEN options.staticPages
    ELSE options.programPages

\* pages a value of the options lets in, by the flag of their category
Gated ==
  [options \in GenerateOptions |->
     { p \in Pages : CategoryFlag(options, p) }]

\* every catalog page is in exactly one of the two categories
TwoCategories ==
  \A p \in Pages : (p \in STATIC_PAGE_NAMES) # (p \in PROGRAM_PAGE_NAMES)

\* C22: with options given, a catalog page is part of the run if and only if
\* the flag of its category is true; every catalog page belongs to exactly
\* one of the two categories; getTotalPages(options) is the number of pages
\* generateAllPageContent processes; with no options every page is included.
C22_OptionGating ==
  /\ TwoCategories
  /\ pc # "start" =>
       /\ generateOptions.defined => RunPages = Gated[generateOptions]
       /\ ~generateOptions.defined => pagesToGenerate = PAGE_DEFINITIONS
       /\ total = TotalPages[generateOptions]
       /\ \A i \in 1..(total - 1) :
            CatalogPos[pagesToGenerate[i]] < CatalogPos[pagesToGenerate[i + 1]]
       /\ \A p \in Pages : p \notin RunPages => task[p] = "idle"
  /\ (pc = "done" /\ NoHang /\ deviations = 0) =>
       \A p \in RunPages : task[p] \in { "skipped", "generated" }

\* a run with static pages only is over: the eight static pages, no other
C22_Witness ==
  /\ pc = "done"
  /\ generateOptions.defined
  /\ generateOptions.staticPages
  /\ ~generateOptions.programPages
  /\ total = 8
  /\ completedCount = 8

(***************************************************************************)
(* The seeded generator of the sitemap library (createSeededRandom)        *)
(***************************************************************************)
\* A string is the sequence of its UTF-16 code units (charCodeAt). The
\* domains a site may be built for, and what the library appends to them
\* (getDomain() returning 'auggisk.com', whose hash is 0, 'a.co',
\* 'free-phone.org', 'govphone.us' and 'polygenelubricants', whose hash is
\* -2^31)
Domains ==
  { << 97, 117, 103, 103, 105, 115, 107, 46, 99, 111, 109 >>,
    << 97, 46, 99, 111 >>,
    << 102, 114, 101, 101, 45, 112, 104, 111, 110, 101, 46, 111, 114, 103 >>,
    << 103, 111, 118, 112, 104, 111, 110, 101, 46, 117, 115 >>,
    << 112, 111, 108, 121, 103, 101, 110, 101, 108, 117, 98, 114, 105, 99,
       97, 110, 116, 115 >> }

\* domain + '-states', domain + '-pages'
Suffix_states == << 45, 115, 116, 97, 116, 101, 115 >>
Suffix_pages == << 45, 112, 97, 103, 101, 115 >>

\* every seed the library hands to createSeededRandom
Seeds ==
  { d \o s : d \in Domains, s \in { << >>, Suffix_states, Suffix_pages } }

\* A 32-bit quantity is kept as two 16-bit halves, value = hi * 2^16 + lo,
\* an int32 by its two's-complement bit pattern
Half == 2 ^ 16
Halves == 0..(Half - 1)
Zero32 == [hi |-> 0, lo |-> 0]
One32 == [hi |-> 0, lo |-> 1]

\* hash << 4 (a fold that shifts by one bit less)
Shl4(h) ==
  LET lo == h.lo * 16
  IN [hi |-> (h.hi * 16 + (lo \div Half)) % Half, lo |-> lo % Half]

\* hash << 5: the int32 shifted left, the bits beyond 32 dropped
Shl5(h) ==
  LET lo == h.lo * 32
  IN [hi |-> (h.hi * 32 + (lo \div Half)) % Half, lo |-> lo % Half]

\* a - b and a + char, brought back to 32 bits by hash & hash
Sub32(a, b) ==
  LET lo == a.lo - b.lo
      borrow == IF lo < 0 THEN 1 ELSE 0
  IN [hi |-> (a.hi - b.hi - borrow + Half) % Half, lo |-> (lo + Half) % Half]
Add32(a, char) ==
  LET lo == a.lo + char
  IN [hi |-> (a.hi + (lo \div Half)) % Half, lo |-> lo % Half]

\* hash = ((hash << 5) - hash) + char; hash = hash & hash
FoldChar(hash, char) == Add32(Sub32(Shl5(hash), hash), char)

\* the for loop over the seed, from i characters folded into hash (the
\* hash of every step is a value of 32 bits before the next step starts)
RECURSIVE Fold(_, _, _)
Fold(seed, i, hash) ==
  IF i >= Len(seed) THEN hash
  ELSE LET next == FoldChar(hash, seed[i + 1])
       IN IF next.hi \in Halves THEN Fold(seed, i + 1, next) ELSE next
seedHash(seed) == Fold(seed, 0, Zero32)

\* the int32 is negative
Negative(h) == h.hi >= Half \div 2

\* Math.abs(hash): of -2^31 it is 2^31
Abs32(h) ==
  IF Negative(h)
  THEN [hi |-> Half - 1 - h.hi + (IF h.lo = 0 THEN 1 ELSE 0),
        lo |-> (Half - h.lo) % Half]
  ELSE h

\* let state = Math.abs(hash), without the || 1
InitialStateOrZero(hash) == Abs32(hash)

\* let state = Math.abs(hash) || 1
InitialState(hash) == IF Abs32(hash) = Zero32 THEN One32 ELSE Abs32(hash)

\* createSeededRandom(seed): the state the returned closure starts with
createSeededRandom(seed) == InitialState(seedHash(seed))

\* the constants of state * 1664525 + 1013904223
Multiplier == 1664525
Increment == 1013904223

\* state * 1664525 + 1013904223, exact: top * 2^32 + hi * 2^16 + lo
Product(state) ==
  LET p0 == state.lo * (Multiplier % Half) + (Increment % Half)
      p1 == state.hi * (Multiplier % Half) + state.lo * (Multiplier \div Half)
              + (Increment \div Half) + (p0 \div Half)
      p2 == state.hi * (Multiplier \div Half) + (p1 \div Half)
  IN [top |-> p2, hi |-> p1 % Half, lo |-> p0 % Half]

\* state = (state * 1664525 + 1013904223) % 4294967296
NextState(state) == [hi |-> Product(state).hi, lo |-> Product(state).lo]

\* Math.floor(value * n) of the value state / 4294967296 a call returned
FloorTimes(state, n) == (state.hi * n + ((state.lo * n) \div Half)) \div Half

\* calls of one generator that are followed
MaxCalls == 8

\* const random = createSeededRandom(seed). gen keeps the seed, the hash
\* after every character and the one the loop ended with, the closure's
\* state, and of the latest call the state it started from, its product and
\* the numerator of the value it returned
CreateSeededRandom ==
  /\ gen.pc = "none"
  /\ \E seed \in Seeds :
       gen' = [pc |-> "ready", seed |-> seed, hash |-> seedHash(seed),
               hashes |-> [n \in 0..Len(seed) |->
                             seedHash(SubSeq(seed, 1, n))],
               initial |-> createSeededRandom(seed),
               state |-> createSeededRandom(seed), calls |-> 0,
               from |-> Zero32, product |-> [top |-> 0, hi |-> 0, lo |-> 0],
               value |-> Zero32]
  /\ UNCHANGED << webVars, runVars, rateVars, wr, proc, shuf, sel, site >>

\* random(): the state advances, the call returns state / 4294967296
Random ==
  /\ gen.pc = "ready"
  /\ gen.calls < MaxCalls
  /\ gen' = [gen EXCEPT !.state = NextState(gen.state),
                        !.calls = @ + 1,
                        !.from = gen.state,
                        !.product = Product(gen.state),
                        !.value = NextState(gen.state)]
  /\ UNCHANGED << webVars, runVars, rateVars, wr, proc, shuf, sel, site >>

PrngInit ==
  /\ ModuleLoaded
  /\ now = ProcessStart
  /\ wr = NoCall
  /\ proc = NoProcess
  /\ RunIdle
  /\ LibIdle

PrngNext == CreateSeededRandom \/ Random

PrngSpec == PrngInit /\ [][PrngNext]_vars

\* Residues: a number below 2^53 is fixed by its residues modulo four
\* pairwise coprime moduli whose product exceeds 2^53
Moduli == { 46337, 46327, 46309, 46307 }
ResidueOf(top, hi, lo, m) ==
  LET p16 == Half % m
      p32 == (p16 * p16) % m
  IN ((((top % m) * p32) % m) + (((hi % m) * p16) % m) + (lo % m)) % m

\* the hash starts at 0 and every character takes it from h to
\* h * k + char wrapped to 32 bits: for some j, h * k + char is
\* j * 2^32 + the next hash (as bit patterns, which fix the signed values)
FoldsBy(k) ==
  /\ gen.hashes[0] = Zero32
  /\ gen.hashes[Len(gen.seed)] = gen.hash
  /\ \A n \in 1..Len(gen.seed) :
       /\ gen.hashes[n].hi \in Halves /\ gen.hashes[n].lo \in Halves
       /\ \E j \in 0..k :
            \A m \in Moduli :
              ((ResidueOf(0, gen.hashes[n - 1].hi, gen.hashes[n - 1].lo, m)
                  * k) + gen.seed[n]) % m
              = ResidueOf(j, gen.hashes[n].hi, gen.hashes[n].lo, m)

\* the generator starts at abs(hash) || 1
StartsAtAbsOrOne ==
  IF gen.hash = Zero32 THEN gen.initial = One32
  ELSE IF Negative(gen.hash)
       THEN /\ gen.initial.hi \in 0..(Half \div 2)
            /\ gen.initial.lo \in Halves
            /\ (gen.initial.lo + gen.hash.lo) % Half = 0
            /\ (gen.initial.hi + gen.hash.hi
                  + ((gen.initial.lo + gen.hash.lo) \div Half)) % Half = 0
       ELSE gen.initial = gen.hash

\* a call advances state to (state * 1664525 + 1013904223) mod 2^32 and
\* returns state / 2^32: for some k, from * 1664525 + 1013904223 is
\* k * 2^32 + state, and the value returned has the numerator state
AdvancesByLCG ==
  gen.calls > 0 =>
    /\ gen.state.hi \in Halves /\ gen.state.lo \in Halves
    /\ gen.value = gen.state
    /\ \A m \in Moduli :
         (((ResidueOf(0, gen.from.hi, gen.from.lo, m) * (Multiplier % m)) % m)
            + (Increment % m)) % m
         = ResidueOf(gen.product.top, gen.state.hi, gen.state.lo, m)

\* C25 as stated: the fold is hash = hash*31 - hash + charCode (30 times the
\* hash plus the character) wrapped to signed 32-bit, the generator starts
\* at abs(hash) || 1 and every call advances by the LCG step
C25_FoldTimes31MinusHash ==
  gen.pc = "ready" =>
    /\ FoldsBy(30)
    /\ StartsAtAbsOrOne
    /\ AdvancesByLCG

\* C25: the fold is hash = (hash << 5) - hash + charCode, that is 31 times
\* the hash plus the character, wrapped to signed 32-bit; the generator
\* starts at abs(hash) || 1, and every call advances state to
\* (state * 1664525 + 1013904223) mod 2^32 and returns state / 2^32
C25_FoldShift5MinusHash ==
  gen.pc = "ready" =>
    /\ FoldsBy(31)
    /\ StartsAtAbsOrOne
    /\ AdvancesByLCG

\* a seed long enough for the fold to wrap, with a negative hash, drawn from
C25_Witness ==
  /\ gen.pc = "ready"
  /\ Len(gen.seed) >= 7
  /\ Negative(gen.hash)
  /\ gen.calls >= 2

\* C26: the state is an integer of [0, 2^32 - 1], the initial one of
\* [1, 2^31]; the product state * 1664525 + 1013904223 is below 2^53 (its
\* part above 2^32 is below 2^21); the value returned is in [0, 1): its
\* numerator over 2^32 is in [0, 2^32 - 1]
C26_StateInRange ==
  gen.pc = "ready" =>
    /\ gen.state.hi \in Halves /\ gen.state.lo \in Halves
    /\ gen.initial.hi \in Halves /\ gen.initial.lo \in Halves
    /\ gen.initial # Zero32
    /\ \/ gen.initial.hi < Half \div 2
       \/ gen.initial = [hi |-> Half \div 2, lo |-> 0]
    /\ gen.product.top \in 0..(2 ^ 21 - 1)
    /\ gen.product.hi \in Halves /\ gen.product.lo \in Halves
    /\ gen.value.hi \in Halves /\ gen.value.lo \in Halves

\* the generator that starts at 2^31, after MaxCalls calls
C26_Witness ==
  /\ gen.pc = "ready"
  /\ gen.initial = [hi |-> Half \div 2, lo |-> 0]
  /\ gen.calls >= 8

(***************************************************************************)
(* seededShuffle and its callers                                           *)
(***************************************************************************)
\* the arrays the callers are given: static page paths ('' is the
\* homepage), states by abbreviation, city records by name and state
PageLists ==
  { << >>, << "" >>,
    << "", "faq", "apply", "contact" >>,
    << "faq", "", "apply" >>,
    << "faq", "apply", "contact", "programs", "providers" >>,
    << "", "faq", "" >> }
StateLists == { << "al", "ak", "az", "ar" >>, << "al", "ak" >> }
CityLists ==
  { << "Mobile|AL", "Mesa|AZ", "Troy|AL" >>,
    << "Mesa|AZ", "Troy|AL", "Mesa|AZ", "Mobile|AL", "Nome|AK" >> }

\* shuffles of one process that are followed
MaxShuffles == 2

\* [shuffled[i], shuffled[j]] = [shuffled[j], shuffled[i]] done as the
\* single assignment shuffled[i] = shuffled[j]
SwapOverwrite(shuffled, i, j) == [shuffled EXCEPT ![i + 1] = shuffled[j + 1]]

\* [shuffled[i], shuffled[j]] = [shuffled[j], shuffled[i]] (JavaScript
\* indices start at 0)
Swap(shuffled, i, j) ==
  [shuffled EXCEPT ![i + 1] = shuffled[j + 1], ![j + 1] = shuffled[i + 1]]

\* for (let i = shuffled.length - 1; i > 0; i--): the loop from i on, with
\* the generator at state; it ends with the array, the pairs (i, j) drawn
\* and the generator's state
RECURSIVE ShuffleLoop(_, _, _, _)
ShuffleLoop(shuffled, i, state, draws) ==
  IF i <= 0
  THEN [shuffled |-> shuffled, draws |-> draws, state |-> state]
  ELSE LET next == NextState(state)
           j == FloorTimes(next, i + 1)
       IN ShuffleLoop(Swap(shuffled, i, j), i - 1, next,
                      Append(draws, [i |-> i, j |-> j]))

\* a generator that goes on from where the latest shuffle's one stopped
RandomCarriedOver(seed) ==
  IF shuf.history = << >> THEN createSeededRandom(seed)
  ELSE shuf.history[Len(shuf.history)].state

\* const random = createSeededRandom(seed)
RandomOf(seed) == createSeededRandom(seed)

\* seededShuffle(array, seed): the loop over a copy of array
seededShuffleRun(array, seed) ==
  ShuffleLoop(array, Len(array) - 1, RandomOf(seed), << >>)
seededShuffle(array, seed) == seededShuffleRun(array, seed).shuffled

\* pages.filter(p => p !== '')
RECURSIVE FilterNotHome(_)
FilterNotHome(pages) ==
  IF pages = << >> THEN << >>
  ELSE IF Head(pages) # "" THEN << Head(pages) >> \o FilterNotHome(Tail(pages))
       ELSE FilterNotHome(Tail(pages))

\* pages.find(p => p === '') !== undefined
HasHome(pages) == \E k \in 1..Len(pages) : pages[k] = ""

\* shuffleStaticPages(pages) of a site of the domain
shuffleStaticPages(pages, domain) ==
  IF HasHome(pages)
  THEN << "" >> \o seededShuffle(FilterNotHome(pages), domain \o Suffix_pages)
  ELSE seededShuffle(FilterNotHome(pages), domain \o Suffix_pages)

\* shuffleStates(states) of a site of the domain
shuffleStates(states, domain) == seededShuffle(states, domain \o Suffix_states)

\* what a call leaves behind: the function, its argument as passed (input)
\* and as the caller finds it afterwards (argument), the array and seed
\* given to seededShuffle, the pairs drawn, the generator's last state, the
\* array seededShuffle returned and what the function returned
ShuffleCall(fn, input, array, seed, output) ==
  [fn |-> fn, input |-> input, argument |-> input, array |-> array,
   seed |-> seed, draws |-> seededShuffleRun(array, seed).draws,
   state |-> seededShuffleRun(array, seed).state,
   shuffled |-> seededShuffle(array, seed), output |-> output]

Shuffled(call) ==
  /\ shuf.pc = "idle"
  /\ Len(shuf.history) < MaxShuffles
  /\ shuf' = [shuf EXCEPT !.history = Append(@, call)]
  /\ UNCHANGED << webVars, runVars, rateVars, wr, proc, gen, sel, site >>

\* generateCitySitemapXML: seededShuffle(cities, domain)
ShuffleCities ==
  \E cities \in CityLists :
    Shuffled(ShuffleCall("seededShuffle", cities, cities, shuf.domain,
                         seededShuffle(cities, shuf.domain)))

ShuffleStates ==
  \E states \in StateLists :
    Shuffled(ShuffleCall("shuffleStates", states, states,
                         shuf.domain \o Suffix_states,
                         shuffleStates(states, shuf.domain)))

ShuffleStaticPages ==
  \E pages \in PageLists :
    Shuffled(ShuffleCall("shuffleStaticPages", pages, FilterNotHome(pages),
                         shuf.domain \o Suffix_pages,
                         shuffleStaticPages(pages, shuf.domain)))

\* a process of a site: getDomain() is the site's domain
ShuffleInit ==
  /\ ModuleLoaded
  /\ now = ProcessStart
  /\ wr = NoCall
  /\ proc = NoProcess
  /\ RunIdle
  /\ gen = NoLibraryCall
  /\ sel = NoLibraryCall
  /\ site = NoLibraryCall
  /\ val = NoLibraryCall
  /\ cf = NoLibraryCall
  /\ rt = NoLibraryCall
  /\ web = NoLibraryCall
  /\ \E domain \in Domains :
       shuf = [pc |-> "idle", domain |-> domain, history |-> << >>]

ShuffleNext == ShuffleCities \/ ShuffleStates \/ ShuffleStaticPages

ShuffleSpec == ShuffleInit /\ [][ShuffleNext]_vars

\* number of places of a sequence that hold x
Count(seq, x) == Cardinality({ k \in 1..Len(seq) : seq[k] = x })
Permutation(a, b) ==
  /\ Len(a) = Len(b)
  /\ \A x \in Range(a) \cup Range(b) : Count(a, x) = Count(b, x)

ShuffleCalls == { shuf.history[k] : k \in 1..Len(shuf.history) }

C28_AnchorPinned ==
  shuf.pc = "idle" =>
    \A c \in ShuffleCalls :
      c.fn = "shuffleStaticPages" =>
        /\ Permutation(c.input, c.output)
        /\ HasHome(c.input) =>
             /\ c.output[1] = ""
             /\ Tail(c.output) = c.shuffled
             /\ Permutation(FilterNotHome(c.input), c.shuffled)

(***************************************************************************)
(* The variation selector and the getters that call it                     *)
(***************************************************************************)
\* the pools of h3-variations.ts and body-variations.ts: name and length
CITY_H3S == [name |-> "CITY_H3S", length |-> 64]
STATE_H3S == [name |-> "STATE_H3S", length |-> 66]
INTRO_PARAGRAPHS == [name |-> "INTRO_PARAGRAPHS", length |-> 31]
BENEFITS_PARAGRAPHS == [name |-> "BENEFITS_PARAGRAPHS", length |-> 25]
ELIGIBILITY_PARAGRAPHS == [name |-> "ELIGIBILITY_PARAGRAPHS", length |-> 25]
HOW_TO_APPLY_PARAGRAPHS == [name |-> "HOW_TO_APPLY_PARAGRAPHS", length |-> 20]

\* the '::' between domain and selection key
Separator == << 58, 58 >>

\* positions of an H3 on a page (one decimal digit)
Positions == 0..2

\* `h3-${pageType}-${position}`: 'h3-', 'city' or 'state', '-', the digit
H3Key(pageType, position) ==
  << 104, 51, 45 >>
    \o (IF pageType = "city" THEN << 99, 105, 116, 121 >>
                             ELSE << 115, 116, 97, 116, 101 >>)
    \o << 45, 48 + position >>

\* selections of one process that are followed
MaxSelections == 3

\* Math.min(Math.max(index, 0), length - 1)
Clamp(index, length) ==
  IF index < 0 THEN 0 ELSE IF index > length - 1 THEN length - 1 ELSE index

\* a selection whose generator goes on from the value drawn for the latest
\* selection of the process
selectVariationCarried(domain, pool, key) ==
  LET seed == domain \o Separator \o key
      last == sel.history[Len(sel.history)]
      value == NextState(IF sel.history = << >>
                         THEN createSeededRandom(seed)
                         ELSE last[Len(last)].value)
  IN [key |-> key, seed |-> seed, pool |-> pool, value |-> value,
      index |-> Clamp(FloorTimes(value, pool.length), pool.length)]

\* selectVariation(domain, pool, key): one value of a generator seeded with
\* domain + '::' + key picks pool[index]; the selection keeps the key, the
\* seed and the numerator of the value drawn besides the pool and the index
selectVariation(domain, pool, key) ==
  LET seed == domain \o Separator \o key
      value == NextState(createSeededRandom(seed))
  IN [key |-> key, seed |-> seed, pool |-> pool, value |-> value,
      index |-> Clamp(FloorTimes(value, pool.length), pool.length)]

\* getH3Variation(domain, pageType, position)
getH3Variation(domain, pageType, position) ==
  << selectVariation(domain,
                     IF pageType = "city" THEN CITY_H3S ELSE STATE_H3S,
                     H3Key(pageType, position)) >>

\* getBodyContentVariations(domain): intro, benefits, eligibility, howToApply
\* (keys 'body-intro', 'body-benefits', 'body-eligibility', 'body-howto')
getBodyContentVariations(domain) ==
  LET body == << 98, 111, 100, 121, 45 >>
      intro == body \o << 105, 110, 116, 114, 111 >>
      benefits == body \o << 98, 101, 110, 101, 102, 105, 116, 115 >>
      eligibility ==
        body \o << 101, 108, 105, 103, 105, 98, 105, 108, 105, 116, 121 >>
      howto == body \o << 104, 111, 119, 116, 111 >>
  IN << selectVariation(domain, INTRO_PARAGRAPHS, intro),
        selectVariation(domain, BENEFITS_PARAGRAPHS, benefits),
        selectVariation(domain, ELIGIBILITY_PARAGRAPHS, eligibility),
        selectVariation(domain, HOW_TO_APPLY_PARAGRAPHS, howto) >>

Selected(selections) ==
  /\ sel.pc = "idle"
  /\ Len(sel.history) < MaxSelections
  /\ sel' = [sel EXCEPT !.history = Append(@, selections)]
  /\ UNCHANGED << webVars, runVars, rateVars, wr, proc, gen, shuf, site >>

GetH3Variation ==
  \E pageType \in { "city", "state" }, position \in Positions :
    Selected(getH3Variation(sel.domain, pageType, position))

GetBodyContentVariations == Selected(getBodyContentVariations(sel.domain))

\* a process that renders pages of the site of a domain
SelectInit ==
  /\ ModuleLoaded
  /\ now = ProcessStart
  /\ wr = NoCall
  /\ proc = NoProcess
  /\ RunIdle
  /\ gen = NoLibraryCall
  /\ shuf = NoLibraryCall
  /\ site = NoLibraryCall
  /\ val = NoLibraryCall
  /\ cf = NoLibraryCall
  /\ rt = NoLibraryCall
  /\ web = NoLibraryCall
  /\ \E domain \in Domains :
       sel = [pc |-> "idle", domain |-> domain, history |-> << >>]

SelectNext == GetH3Variation \/ GetBodyContentVariations

SelectSpec == SelectInit /\ [][SelectNext]_vars

\* every selection made by the process so far
SelectionsMade ==
  UNION { { sel.history[k][n] : n \in 1..Len(sel.history[k]) } :
          k \in 1..Len(sel.history) }

\* index <= value * length < index + 1 for the value numerator / 2^32:
\* numerator * length is q * 2^32 + r with q = index
IsFloorOf(index, numerator, length) ==
  LET lo == numerator.lo * length
      hi == numerator.hi * length + (lo \div Half)
  IN index = hi \div Half

endsWith(s, t) ==
  Len(t) <= Len(s) /\ SubSeq(s, Len(s) - Len(t) + 1, Len(s)) = t

\* s.indexOf(t): the first place t occurs at, from 0, or -1
indexOf(s, t) ==
  LET at == { i \in 0..(Len(s) - Len(t)) : SubSeq(s, i + 1, i + Len(t)) = t }
  IN IF at = {} THEN -1 ELSE CHOOSE i \in at : \A j \in at : i <= j

\* s.includes(t)
includes(s, t) == indexOf(s, t) # -1

\* s.replace(t, r) with a string pattern: only the first occurrence
replace(s, t, r) ==
  IF indexOf(s, t) = -1 THEN s
  ELSE SubSeq(s, 1, indexOf(s, t)) \o r
       \o SubSeq(s, indexOf(s, t) + Len(t) + 1, Len(s))

\* s.split(sep)[0]
splitFirst(s, sep) ==
  IF indexOf(s, sep) = -1 THEN s ELSE SubSeq(s, 1, indexOf(s, sep))

UpperCase == "ABCDEFGHIJKLMNOPQRSTUVWXYZ"
LowerCase == "abcdefghijklmnopqrstuvwxyz"

\* the lower-case letter of every upper-case one
LowerOf ==
  [c \in { SubSeq(UpperCase, i, i) : i \in 1..Len(UpperCase) } |->
     SubSeq(LowerCase, indexOf(UpperCase, c) + 1, indexOf(UpperCase, c) + 1)]

\* s.toLowerCase()
RECURSIVE toLowerCase(_)
toLowerCase(s) ==
  IF s = "" THEN ""
  ELSE (IF Head(s) \in DOMAIN LowerOf THEN LowerOf[Head(s)] ELSE Head(s))
       \o toLowerCase(Tail(s))

\* the string of a sequence of code units (String.fromCharCode), for the
\* characters of a domain name
RECURSIVE fromCharCode(_)
fromCharCode(codes) ==
  IF codes = << >> THEN ""
  ELSE (IF Head(codes) \in 97..122
        THEN SubSeq(LowerCase, Head(codes) - 96, Head(codes) - 96)
        ELSE SubSeq("-./0123456789", Head(codes) - 44, Head(codes) - 44))
       \o fromCharCode(Tail(codes))

\* STATE_NAME_TO_ABBR, entry by entry
STATE_NAME_TO_ABBR ==
  << << "alabama", "AL" >>, << "alaska", "AK" >>, << "arizona", "AZ" >>,
     << "arkansas", "AR" >>, << "california", "CA" >>,
     << "colorado", "CO" >>, << "connecticut", "CT" >>,
     << "delaware", "DE" >>, << "florida", "FL" >>, << "georgia", "GA" >>,
     << "hawaii", "HI" >>, << "idaho", "ID" >>, << "illinois", "IL" >>,
     << "indiana", "IN" >>, << "iowa", "IA" >>, << "kansas", "KS" >>,
     << "kentucky", "KY" >>, << "louisiana", "LA" >>, << "maine", "ME" >>,
     << "maryland", "MD" >>, << "massachusetts", "MA" >>,
     << "michigan", "MI" >>, << "minnesota", "MN" >>,
     << "mississippi", "MS" >>, << "missouri", "MO" >>,
     << "montana", "MT" >>, << "nebraska", "NE" >>, << "nevada", "NV" >>,
     << "new-hampshire", "NH" >>, << "new-jersey", "NJ" >>,
     << "new-mexico", "NM" >>, << "new-york", "NY" >>,
     << "north-carolina", "NC" >>, << "north-dakota", "ND" >>,
     << "ohio", "OH" >>, << "oklahoma", "OK" >>, << "oregon", "OR" >>,
     << "pennsylvania", "PA" >>, << "rhode-island", "RI" >>,
     << "south-carolina", "SC" >>, << "south-dakota", "SD" >>,
     << "tennessee", "TN" >>, << "texas", "TX" >>, << "utah", "UT" >>,
     << "vermont", "VT" >>, << "virginia", "VA" >>,
     << "washington", "WA" >>, << "west-virginia", "WV" >>,
     << "wisconsin", "WI" >>, << "wyoming", "WY" >>,
     << "district-of-columbia", "DC" >>, << "puerto-rico", "PR" >>,
     << "guam", "GU" >>, << "virgin-islands", "VI" >> >>

\* STATE_ABBR_TO_NAME: Object.fromEntries of the entries turned round, the
\* abbreviation in lower case
STATE_ABBR_TO_NAME ==
  [i \in 1..Len(STATE_NAME_TO_ABBR) |->
     << toLowerCase(STATE_NAME_TO_ABBR[i][2]), STATE_NAME_TO_ABBR[i][1] >>]

\* the members every object literal inherits from Object.prototype
ObjectPrototype ==
  { "constructor", "__proto__", "hasOwnProperty", "isPrototypeOf",
    "propertyIsEnumerable", "toLocaleString", "toString", "valueOf",
    "__defineGetter__", "__defineSetter__", "__lookupGetter__",
    "__lookupSetter__" }

\* object[key] restricted to the entries of the object itself
OwnProperty(object, key) ==
  LET own == { i \in 1..Len(object) : object[i][1] = key }
  IN IF own # {}
       THEN [kind |-> "own",
             value |-> object[CHOOSE i \in own : \A j \in own : j <= i][2]]
       ELSE [kind |-> "undefined", value |-> ""]

\* object[key] of an object literal (or of the result of
\* Object.fromEntries): the entry of that key, the latest one if the key is
\* repeated; failing that the member inherited from Object.prototype;
\* failing that undefined
Property(object, key) ==
  IF OwnProperty(object, key).kind = "own" THEN OwnProperty(object, key)
  ELSE IF key \in ObjectPrototype THEN [kind |-> "inherited", value |-> key]
  ELSE [kind |-> "undefined", value |-> ""]

\* !value is false: a non-empty string, or an inherited function or object
Truthy(v) == v.kind = "inherited" \/ (v.kind = "own" /\ v.value # "")

\* `${value}`
TemplateText(v) ==
  IF v.kind = "own" THEN v.value ELSE "[" \o v.kind \o " " \o v.value \o "]"

\* a site's configuration: config.domain and config.useSubdomains ("true",
\* "false", or "undefined" when it is not set)
SiteConfig(domain, subdomains) ==
  [domain |-> domain, useSubdomains |-> subdomains]

\* getDomain()
getDomain(config) == config.domain

\* getSiteURL(), for a domain that is configured (for '' and for a domain
\* with 'example' in it the call throws; no such domain is modelled)
getSiteURL(config) == "https://" \o getDomain(config)

\* useSubdomains()
useSubdomains(config) ==
  IF config.useSubdomains # "undefined" THEN config.useSubdomains = "true"
  ELSE getDomain(config) \in { "free-government-phone.org",
                               "government-phone.org" }

Null == [kind |-> "null"]

\* parseSubdomain(hostname)
parseSubdomain(hostname, config) ==
  LET domain == getDomain(config)
      host == toLowerCase(splitFirst(hostname, ":"))
      subdomain == replace(host, "." \o domain, "")
      stateAbbr == Property(STATE_NAME_TO_ABBR, subdomain)
  IN IF ~useSubdomains(config) THEN Null
     ELSE IF ~endsWith(host, "." \o domain) THEN Null
     ELSE IF subdomain = "www" \/ subdomain = "" THEN Null
     ELSE IF ~Truthy(stateAbbr) THEN Null
     ELSE [kind |-> "state", stateAbbr |-> stateAbbr, stateName |-> subdomain]

\* getStateSubdomainURL(stateAbbr)
getStateSubdomainURL(stateAbbr, config) ==
  LET domain == getDomain(config)
      stateName == Property(STATE_ABBR_TO_NAME, toLowerCase(stateAbbr))
  IN IF ~useSubdomains(config)
       THEN "https://" \o domain \o "/" \o toLowerCase(stateAbbr) \o "/"
     ELSE IF ~Truthy(stateName) THEN "https://" \o domain \o "/"
     ELSE "https://" \o TemplateText(stateName) \o "." \o domain \o "/"

\* getCitySubdomainURL(citySlug, stateAbbr)
getCitySubdomainURL(citySlug, stateAbbr, config) ==
  LET domain == getDomain(config)
      stateName == Property(STATE_ABBR_TO_NAME, toLowerCase(stateAbbr))
  IN IF ~useSubdomains(config)
       THEN "https://" \o domain \o "/" \o toLowerCase(stateAbbr) \o "/"
            \o citySlug \o "/"
     ELSE IF ~Truthy(stateName) THEN "https://" \o domain \o "/"
     ELSE "https://" \o TemplateText(stateName) \o "." \o domain \o "/"
          \o citySlug \o "-" \o toLowerCase(stateAbbr) \o ".php"

(***************************************************************************)
(* Sitemap listings: getCitiesForSitemap, generateCitySitemapXML and the   *)
(* sitemap.xml route                                                       *)
(***************************************************************************)
\* the rows of the cities table by decreasing population, each with
\* city.name and city.states?.abbreviation || '': no table, a table of
\* distinct cities, and one with rows that lead to the same URL and rows
\* that lack a name or a state
Row(name, abbreviation) == [name |-> name, abbreviation |-> abbreviation]
Databases ==
  { << >>,
    << Row("Mesa", "AZ"), Row("St. Louis", "MO"), Row("Troy", "AL") >>,
    << Row("St. Louis", "MO"), Row("Mesa", "AZ"), Row("", "AZ"),
       Row("St Louis", "MO"), Row("Troy", ""), Row("Troy", "AL"),
       Row("Mesa", "az"), Row("St. Louis", "mo") >>,
    << Row("Pago Pago", "AS"), Row("Mesa", "AZ"), Row("Tafuna", "AS") >> }

\* the rows of the states table, by name
StateRows == << "AL", "AZ", "MO" >>

\* lists of city records given to generateCitySitemapXML by other callers
City(name, state_abbr) == [name |-> name, state_abbr |-> state_abbr]
CityRecordLists ==
  { << City("St Louis", "MO"), City("Mesa", "AZ"), City("St. Louis", "mo"),
       City("Troy", "AL"), City("Mesa", "AZ") >>,
    << City("Tafuna", "AS"), City("Pago Pago", "AS") >> }

\* createCitySlug(name): lower case, punctuation dropped, blanks to hyphens
createCitySlug(name) ==
  CASE name = "St. Louis" -> "st-louis"
    [] name = "St Louis" -> "st-louis"
    [] name = "Mesa" -> "mesa"
    [] name = "Troy" -> "troy"
    [] name = "Pago Pago" -> "pago-pago"
    [] name = "Tafuna" -> "tafuna"
    [] OTHER -> ""

\* cityUrl: getCitySubdomainURL(citySlug, stateAbbr.toLowerCase()) in
\* subdomain mode, `${SITE_URL}/${stateAbbr.toLowerCase()}/${citySlug}/`
\* otherwise
cityUrl(city, config) ==
  IF useSubdomains(config)
  THEN getCitySubdomainURL(createCitySlug(city.name),
                           toLowerCase(city.state_abbr), config)
  ELSE getSiteURL(config) \o "/" \o toLowerCase(city.state_abbr) \o "/"
       \o createCitySlug(city.name) \o "/"

\* the loop body with no test of cityUrls.has(cityUrl)
AddCityAlways(acc, city, config) ==
  LET url == cityUrl(city, config)
  IN [urls |-> acc.urls \cup { url },
      cities |-> Append(acc.cities, city),
      locs |-> Append(acc.locs, url)]

\* the loop body shared by the three listings: a city whose URL is in
\* cityUrls is skipped, another one is added to cityUrls and emitted; acc
\* keeps cityUrls, the cities kept and the <loc> entries in order
AddCity(acc, city, config) ==
  LET url == cityUrl(city, config)
  IN IF url \in acc.urls THEN acc
     ELSE [urls |-> acc.urls \cup { url },
           cities |-> Append(acc.cities, city),
           locs |-> Append(acc.locs, url)]

RECURSIVE AddCities(_, _, _)
AddCities(acc, cities, config) ==
  IF cities = << >> THEN acc
  ELSE AddCities(AddCity(acc, Head(cities), config), Tail(cities),
                 config)

NoCities == [urls |-> {}, cities |-> << >>, locs |-> << >>]

\* the rows that have a name and a state, as { name, state_abbr }
RECURSIVE ValidCities(_)
ValidCities(data) ==
  IF data = << >> THEN << >>
  ELSE (IF Head(data).name # "" /\ Head(data).abbreviation # ""
        THEN << City(Head(data).name, Head(data).abbreviation) >>
        ELSE << >>) \o ValidCities(Tail(data))

\* .range(from, to) of the table
RangeOf(db, from, to) ==
  IF from + 1 > Len(db) THEN << >>
  ELSE SubSeq(db, from + 1, IF to + 1 < Len(db) THEN to + 1 ELSE Len(db))

\* the while loop of getCitiesForSitemap from a page on, the fetches
\* answering with data
RECURSIVE FetchUnique(_, _, _, _, _)
FetchUnique(db, page, acc, wanted, config) ==
  LET pageSize == 1000
      maxPages == 50
      data == RangeOf(db, page * pageSize, (page + 1) * pageSize - 1)
      added == AddCities(acc, ValidCities(data), config)
  IN IF ~(Len(acc.cities) < wanted /\ page < maxPages) THEN acc
     ELSE IF data = << >> THEN acc
     ELSE IF Len(added.cities) >= wanted \/ Len(data) < pageSize THEN added
     ELSE FetchUnique(db, page + 1, added, wanted, config)

\* deduplicatedCities.slice(offset, offset + limit)
Slice(seq, from, to) ==
  IF from >= Len(seq) \/ to <= from THEN << >>
  ELSE SubSeq(seq, from + 1, IF to < Len(seq) THEN to ELSE Len(seq))

\* getCitiesForSitemap(offset, limit): without supabase, on an error of the
\* first fetch or on a throw nothing was collected
getCitiesForSitemap(db, offset, limit, outcome, config) ==
  IF outcome # "data" THEN << >>
  ELSE Slice(FetchUnique(db, 0, NoCities, offset + limit,
                         config).cities,
             offset, offset + limit)

\* generateCitySitemapXML(cities): the <loc> of its <url> entries, in order
generateCitySitemapXML(cities, domain, config) ==
  AddCities(NoCities, seededShuffle(cities, domain), config).locs

\* GET of sitemap.xml: the <loc> of the static pages, of the states and of
\* the cities fetched, the latter always `${SITE_URL}/${state}/${citySlug}/`
sitemapXml(states, cities, config) ==
  LET staticPages ==
        << "", "/eligibility", "/programs", "/providers", "/faq", "/contact",
           "/apply", "/lifeline-program", "/acp-program", "/tribal-programs",
           "/state-programs", "/emergency-broadband",
           "/free-government-phone-near-me", "/states" >>
  IN [k \in 1..Len(staticPages) |->
        getSiteURL(config) \o staticPages[k] \o "/"]
     \o [k \in 1..Len(states) |->
           getSiteURL(config) \o "/" \o toLowerCase(states[k]) \o "/"]
     \o AddCities(NoCities, cities,
                  SiteConfig(getDomain(config), "false")).locs

\* requests of one process that are followed
MaxRequests == 2

\* the configuration the functions of a site read: its domain and a mode
ConfigOf(domain, mode) ==
  SiteConfig(fromCharCode(domain), IF mode THEN "true" ELSE "false")

Outcomes == { "data", "error", "none" }

\* site keeps the latest request: the function, the city records it worked
\* on (given), the chunk or the listing it returned, and the mode URLs were
\* built in
Served(fn, given, chunk, listing, mode) ==
  /\ site.pc = "idle"
  /\ site.requests < MaxRequests
  /\ site' = [site EXCEPT !.requests = @ + 1, !.fn = fn, !.given = given,
                          !.chunk = chunk, !.listing = listing,
                          !.mode = mode]
  /\ UNCHANGED << webVars, runVars, rateVars, wr, proc, gen, shuf, sel >>

GetCitiesForSitemap ==
  \E offset \in 0..2, limit \in 0..3, outcome \in Outcomes :
    Served("getCitiesForSitemap",
           IF outcome = "data" THEN ValidCities(site.db) ELSE << >>,
           getCitiesForSitemap(site.db, offset, limit, outcome,
                               ConfigOf(site.domain, site.useSubdomains)),
           << >>, site.useSubdomains)

GenerateCitySitemapXML ==
  \E cities \in CityRecordLists \cup { site.chunk } :
    Served("generateCitySitemapXML", cities, site.chunk,
           generateCitySitemapXML(cities, site.domain,
                                  ConfigOf(site.domain, site.useSubdomains)),
           site.useSubdomains)

\* the route: the states fetched or not, the cities of the first page or,
\* after an error (the next page is empty) or without supabase, none
SitemapGet ==
  \E outcome \in Outcomes, states \in { << >>, StateRows } :
    LET cities == IF outcome = "data" THEN ValidCities(site.db) ELSE << >>
    IN Served("GET", cities, site.chunk,
              sitemapXml(IF outcome = "none" THEN << >> ELSE states, cities,
                         ConfigOf(site.domain, site.useSubdomains)),
              FALSE)

SiteInit ==
  /\ ModuleLoaded
  /\ now = ProcessStart
  /\ wr = NoCall
  /\ proc = NoProcess
  /\ RunIdle
  /\ gen = NoLibraryCall
  /\ shuf = NoLibraryCall
  /\ sel = NoLibraryCall
  /\ val = NoLibraryCall
  /\ cf = NoLibraryCall
  /\ rt = NoLibraryCall
  /\ web = NoLibraryCall
  /\ \E domain \in Domains, subdomains \in BOOLEAN, db \in Databases :
       site = [pc |-> "idle", domain |-> domain,
               useSubdomains |-> subdomains, db |-> db, requests |-> 0,
               fn |-> "none", given |-> << >>, chunk |-> << >>,
               listing |-> << >>, mode |-> subdomains]

SiteNext == GetCitiesForSitemap \/ GenerateCitySitemapXML \/ SitemapGet

SiteSpec == SiteInit /\ [][SiteNext]_vars

NoRepeat(seq) == \A i, j \in 1..Len(seq) : i # j => seq[i] # seq[j]

\* C29: a listing holds every URL at most once and the URL of every city
\* record it was generated from exactly once, so two records with the same
\* URL give one <url> entry (generateCitySitemapXML, the sitemap.xml route);
\* the cities of a chunk returned by getCitiesForSitemap have pairwise
\* distinct URLs
C29_SitemapDedup ==
  site.pc = "idle" =>
    /\ NoRepeat(site.listing)
    /\ site.fn \in { "generateCitySitemapXML", "GET" } =>
         \A k \in 1..Len(site.given) :
           Count(site.listing,
                 cityUrl(site.given[k], ConfigOf(site.domain, site.mode))) = 1
    /\ site.fn = "getCitiesForSitemap" =>
         NoRepeat([k \in 1..Len(site.chunk) |->
                     cityUrl(site.chunk[k],
                             ConfigOf(site.domain, site.mode))])

\* city records with the same URL were listed, and a chunk was cut out of a
\* table with such rows
C29_Witness ==
  /\ site.pc = "idle"
  /\ site.fn \in { "generateCitySitemapXML", "GET" }
  /\ \E i, j \in 1..Len(site.given) :
       /\ i # j
       /\ site.given[i] # site.given[j]
       /\ cityUrl(site.given[i], ConfigOf(site.domain, site.mode))
            = cityUrl(site.given[j], ConfigOf(site.domain, site.mode))
  /\ Len(site.listing) > 3
  /\ Len(site.chunk) = 3


(***************************************************************************)
(* validatePageContent on its own: calls on files of every kind            *)
(***************************************************************************)
MaxValidations == 2

\* the files a path can hold: nothing, or a file of one of the kinds
ValidatedFiles == { NoFile } \cup { Old(k) : k \in FileKinds }

\* one call of validatePageContent(filePath); the function has no path on
\* which the promise rejects: both answers are booleans
ValidatePageContent ==
  /\ val.pc = "idle"
  /\ Len(val.history) < MaxValidations
  /\ \E f \in ValidatedFiles :
       val' = [val EXCEPT !.history =
                 Append(@, [file |-> f, result |-> validatePageContent(f)])]
  /\ UNCHANGED << runVars, rateVars, wr, proc, libVars, cf, rt, web >>

ValidateInit ==
  /\ ModuleLoaded
  /\ now = ProcessStart
  /\ wr = NoCall
  /\ proc = NoProcess
  /\ RunIdle
  /\ gen = NoLibraryCall
  /\ shuf = NoLibraryCall
  /\ sel = NoLibraryCall
  /\ site = NoLibraryCall
  /\ cf = NoLibraryCall
  /\ rt = NoLibraryCall
  /\ web = NoLibraryCall
  /\ val = [pc |-> "idle", history |-> << >>]

ValidateNext == ValidatePageContent

ValidateSpec == ValidateInit /\ [][ValidateNext]_vars

\* C31: validatePageContent answers true exactly for a readable file whose
\* content has length >= 500, contains '---', contains one of '<html',
\* '<!doctype', '<Layout', does not hold both 'error' and 'failed' while
\* shorter than 1000, and has at least 20 non-blank lines; a missing or
\* unreadable file answers false, and every answer is a boolean
C31_ValidationHeuristics ==
  \A i \in 1..Len(val.history) :
    LET call == val.history[i]
        c == FileAttrs(call.file.kind) IN
      /\ call.result \in BOOLEAN
      /\ call.file = NoFile => call.result = FALSE
      /\ call.file # NoFile =>
           ( call.result = TRUE <=>
               /\ c.readable
               /\ c.length >= 500
               /\ c.dashes
               /\ (c.htmlTag \/ c.doctype \/ c.layout)
               /\ ~(c.error /\ c.failed /\ c.length < 1000)
               /\ c.lines >= 20 )

\* a file with no structural marker was refused and one whose only marker is
\* '<Layout' was accepted
C31_Witness ==
  /\ Len(val.history) = 2
  /\ val.history[1].file.kind = "nomarker"
  /\ val.history[1].result = FALSE
  /\ val.history[2].file.kind = "layout"
  /\ val.history[2].result = TRUE

(***************************************************************************)
(* Counting and the place of 'batch-complete' in a batch                   *)
(***************************************************************************)
\* a page has its final outcome for the run: its first-pass task skipped or
\* generated it, or the retry pass has dealt with its rejection
FinalOutcome(p) ==
  \/ task[p] \in { "skipped", "generated" }
  \/ task[p] = "rejected" /\ retried[p] # "none"

\* C32 as stated: completedCount = generatedCount + skippedCount and
\* completedCount <= total in every state of a run, every page contributing
\* at most one increment, also when a first-pass task fails after its file
\* was written and the retry pass finds the valid file.
C32_CountingInvariant ==
  /\ completedCount = generatedCount + skippedCount
  /\ completedCount <= total

\* C33 as stated: 'batch-complete' of batch k is emitted only after every
\* page of batch k has its final outcome (skipped, generated or permanently
\* failed), so that its count includes the pages recovered by the retry pass
\* of batch k.
C33_BatchCompleteAfterRetries ==
  \A n \in batchNotes :
    pc # "threw" => \A p \in Batch(n.id - 1) : FinalOutcome(p)

\* what tells two city records apart: the state abbreviation, whatever its
\* case, and the slug of the name
CityKey(city) ==
  << toLowerCase(city.state_abbr), createCitySlug(city.name) >>

\* C35 as stated: URL-based deduplication never drops a distinct city: two
\* city records with different (state abbreviation, city slug) pairs have
\* different URLs in getCitiesForSitemap and generateCitySitemapXML, in path
\* mode and in subdomain mode, also when the state abbreviation is unknown
\* to getCitySubdomainURL.
C35_DistinctCitiesKept ==
  (site.pc = "idle"
     /\ site.fn \in { "getCitiesForSitemap", "generateCitySitemapXML" }) =>
    \A i, j \in 1..Len(site.given) :
      CityKey(site.given[i]) # CityKey(site.given[j]) =>
        cityUrl(site.given[i], ConfigOf(site.domain, site.mode))
          # cityUrl(site.given[j], ConfigOf(site.domain, site.mode))

(***************************************************************************)
(* getCitiesForSitemap fetch by fetch                                      *)
(***************************************************************************)
\* const pageSize = 1000; const maxPages = 50
pageSize == 1000
maxPages == 50

\* calls of getCitiesForSitemap that are followed
MaxChunks == 2

\* The rows a fetch of range(page * pageSize, (page + 1) * pageSize - 1)
\* answers with: the rows listed, followed by a number of rows that have no
\* name (the loop passes over them)
Page(rows, blanks) == [rows |-> rows, blanks |-> blanks]
DataLength(data) == Len(data.rows) + data.blanks

\* pages a database may answer with when nothing is known of the table
AnyPages ==
  { Page(<< >>, pageSize),
    Page(<< Row("Mesa", "AZ") >>, pageSize - 1),
    Page(<< Row("Mesa", "az"), Row("Troy", "AL"), Row("Mesa", "AZ") >>,
         pageSize - 3),
    Page(<< Row("St. Louis", "MO"), Row("Tafuna", "AS") >>, 0) }

\* cities tables, by decreasing population, cut at every pageSize rows: all
\* pieces but the last are of pageSize rows; the last table has more than
\* maxPages pages
Tables ==
  { << >>,
    << Page(<< Row("Mesa", "AZ"), Row("St. Louis", "MO"), Row("Troy", "") >>,
            0) >>,
    << Page(<< Row("Mesa", "AZ"), Row("St. Louis", "MO") >>, pageSize - 2),
       Page(<< Row("St Louis", "MO"), Row("Troy", "AL"),
               Row("Tafuna", "AS") >>, 0) >>,
    << Page(<< Row("Mesa", "AZ") >>, pageSize - 1),
       Page(<< Row("Mesa", "az") >>, pageSize - 1),
       Page(<< Row("Pago Pago", "AS"), Row("Tafuna", "AS"),
               Row("Troy", "AL") >>, 0) >>,
    [k \in 1..(maxPages + 1) |->
       IF k < maxPages THEN Page(<< Row("Mesa", "AZ") >>, pageSize - 1)
       ELSE Page(<< Row("Troy", "AL"), Row("St. Louis", "MO") >>,
                 pageSize - 2)] }

\* .range(page * pageSize, (page + 1) * pageSize - 1) of a table
PageOf(table, page) ==
  IF page < Len(table) THEN table[page + 1] ELSE Page(<< >>, 0)

\* what a fetch may answer: { data }, { error }, or a throw.  Of a stable
\* table the data is the table's; otherwise it is any page
Responses(table, stable, page) ==
  { [kind |-> "error"], [kind |-> "throw"] } \cup
  (IF stable THEN { [kind |-> "data", data |-> PageOf(table, page)] }
   ELSE { [kind |-> "data", data |-> d] :
            d \in AnyPages \cup { Page(<< >>, 0) } })

\* the while condition without the limit on pages
MoreWantedUnbounded(collected, wanted, page) == collected < wanted

\* deduplicatedCities.length < offset + limit && page < maxPages
MoreWanted(collected, wanted, page) == collected < wanted /\ page < maxPages

\* getCitiesForSitemap(offset, limit) is called
ChunkCall ==
  /\ cf.pc \in { "idle", "returned" }
  /\ cf.calls < MaxChunks
  /\ \E offset \in 0..2, limit \in 1..2 :
       cf' = [cf EXCEPT !.pc = "loop", !.calls = @ + 1, !.offset = offset,
                        !.limit = limit, !.page = 0, !.fetches = 0,
                        !.acc = NoCities, !.threw = FALSE,
                        !.result = << >>]
  /\ UNCHANGED << runVars, rateVars, wr, proc, libVars, val, rt, web >>

\* the function returns list; of a stable table the chunk is remembered
\* with its range
ChunkReturned(list, threw, fetches, acc, page) ==
  cf' = [cf EXCEPT !.pc = "returned", !.result = list, !.threw = threw,
                   !.fetches = fetches, !.acc = acc, !.page = page,
                   !.chunks = IF cf.stable
                                THEN @ \cup { [offset |-> cf.offset,
                                               limit |-> cf.limit,
                                               cities |-> list] }
                                ELSE @]

\* one turn of the while loop: the fetch, then break, or page++
ChunkFetch ==
  /\ cf.pc = "loop"
  /\ MoreWanted(Len(cf.acc.cities), cf.offset + cf.limit, cf.page)
  /\ \E r \in Responses(cf.table, cf.stable, cf.page) :
       LET added == AddCities(cf.acc, ValidCities(r.data.rows), cf.config)
           sliceOf(acc) ==
             Slice(acc.cities, cf.offset, cf.offset + cf.limit)
       IN CASE r.kind = "throw" ->
                 ChunkReturned(<< >>, TRUE, cf.fetches + 1, cf.acc, cf.page)
            [] r.kind = "error" ->
                 ChunkReturned(sliceOf(cf.acc), FALSE, cf.fetches + 1,
                               cf.acc, cf.page)
            [] r.kind = "data" /\ DataLength(r.data) = 0 ->
                 ChunkReturned(sliceOf(cf.acc), FALSE, cf.fetches + 1,
                               cf.acc, cf.page)
            [] r.kind = "data" /\ DataLength(r.data) > 0
                 /\ (Len(added.cities) >= cf.offset + cf.limit
                       \/ DataLength(r.data) < pageSize) ->
                 ChunkReturned(sliceOf(added), FALSE, cf.fetches + 1, added,
                               cf.page)
            [] OTHER ->
                 cf' = [cf EXCEPT !.acc = added, !.page = @ + 1,
                                  !.fetches = @ + 1]
  /\ UNCHANGED << runVars, rateVars, wr, proc, libVars, val, rt, web >>

\* the while condition fails: the slice is returned
ChunkSlice ==
  /\ cf.pc = "loop"
  /\ ~MoreWanted(Len(cf.acc.cities), cf.offset + cf.limit, cf.page)
  /\ ChunkReturned(Slice(cf.acc.cities, cf.offset, cf.offset + cf.limit),
                   FALSE, cf.fetches, cf.acc, cf.page)
  /\ UNCHANGED << runVars, rateVars, wr, proc, libVars, val, rt, web >>

ChunkInit ==
  /\ ModuleLoaded
  /\ now = ProcessStart
  /\ wr = NoCall
  /\ proc = NoProcess
  /\ RunIdle
  /\ gen = NoLibraryCall
  /\ shuf = NoLibraryCall
  /\ sel = NoLibraryCall
  /\ site = NoLibraryCall
  /\ val = NoLibraryCall
  /\ rt = NoLibraryCall
  /\ web = NoLibraryCall
  /\ \E subdomains \in { "true", "false" }, stable \in BOOLEAN,
        table \in Tables :
       /\ ~stable => table = << >>
       /\ cf = [pc |-> "idle", config |-> SiteConfig("a.co", subdomains),
                stable |-> stable, table |-> table, calls |-> 0,
                offset |-> 0, limit |-> 0, page |-> 0, fetches |-> 0,
                acc |-> NoCities, threw |-> FALSE, result |-> << >>,
                chunks |-> {}]

ChunkNext == ChunkCall \/ ChunkFetch \/ ChunkSlice

ChunkSpec == ChunkInit /\ [][ChunkNext]_vars

\* the URLs of a list of city records
UrlsOf(cities, config) == { cityUrl(cities[k], config) : k \in 1..Len(cities) }

\* C34: getCitiesForSitemap makes at most 50 fetches whatever the database
\* answers (every turn of the loop ends the call or moves to the next page,
\* and no turn starts at page 50), returns at most limit cities with
\* pairwise distinct URLs, returns the empty list when a fetch throws, and
\* for a stable table chunks of disjoint offset ranges share no URL
C34_BoundedChunk ==
  /\ cf.fetches <= maxPages
  /\ cf.pc = "loop" => (cf.fetches = cf.page /\ ENABLED ChunkNext)
  /\ cf.pc = "returned" =>
       /\ Len(cf.result) <= cf.limit
       /\ Cardinality(UrlsOf(cf.result, cf.config)) = Len(cf.result)
       /\ cf.threw => cf.result = << >>
  /\ cf.stable =>
       \A c, d \in cf.chunks :
         (c.offset + c.limit <= d.offset \/ d.offset + d.limit <= c.offset)
           => UrlsOf(c.cities, cf.config) \cap UrlsOf(d.cities, cf.config)
                = {}

\* of a stable table a call returned after its 50th fetch, and two chunks of
\* disjoint ranges were returned that are not empty
C34_Witness ==
  /\ cf.stable
  /\ cf.pc = "returned"
  /\ cf.fetches = maxPages
  /\ Len(cf.result) = cf.limit
  /\ \E c, d \in cf.chunks :
       /\ c.offset + c.limit <= d.offset
       /\ c.cities # << >>
       /\ d.cities # << >>

(***************************************************************************)
(* The city pagination of the sitemap.xml route, fetch by fetch            *)
(***************************************************************************)
\* if (page > 100) break, after an error
errorPages == 100

\* the cities tables the route reads: those above and one of more than
\* errorPages pages
RouteTables ==
  Tables \cup
  { [k \in 1..(errorPages + 3) |->
       IF k < errorPages + 3 THEN Page(<< Row("Mesa", "AZ") >>, pageSize - 1)
       ELSE Page(<< Row("Troy", "AL") >>, 0)] }

\* page after an error, were it left as it is
AfterErrorSamePage(page) == page

\* page++ after an error
AfterError(page) == page + 1

\* GET is called; with supabase the loop starts at page 0 with hasMore true
\* (the route has its own pageSize, 1000 as well)
RouteGet ==
  /\ rt.pc = "idle"
  /\ rt' = [rt EXCEPT !.pc = "loop", !.hasMore = TRUE, !.page = 0,
                      !.totalFetched = 0, !.fetches = 0, !.errors = 0]
  /\ UNCHANGED << runVars, rateVars, wr, proc, libVars, val, cf, web >>

\* one turn of while (hasMore): the fetch answers with an error, throws, or
\* gives the table's rows of the page
RouteFetch ==
  /\ rt.pc = "loop"
  /\ rt.hasMore
  /\ \E r \in Responses(rt.table, TRUE, rt.page) :
       CASE r.kind = "error" ->
              rt' = [rt EXCEPT !.page = AfterError(rt.page),
                               !.fetches = @ + 1, !.errors = @ + 1,
                               !.pc = IF AfterError(rt.page) > errorPages
                                        THEN "done" ELSE "loop"]
         [] r.kind = "throw" ->
              rt' = [rt EXCEPT !.fetches = @ + 1, !.pc = "done"]
         [] r.kind = "data" /\ DataLength(r.data) > 0 ->
              rt' = [rt EXCEPT
                       !.fetches = @ + 1,
                       !.totalFetched = @ + Len(ValidCities(r.data.rows)),
                       !.hasMore = ~(DataLength(r.data) < pageSize),
                       !.page = IF DataLength(r.data) < pageSize
                                  THEN @ ELSE @ + 1,
                       !.pc = IF DataLength(r.data) < pageSize
                                THEN "done" ELSE "loop"]
         [] OTHER ->
              rt' = [rt EXCEPT !.fetches = @ + 1, !.hasMore = FALSE,
                               !.pc = "done"]
  /\ UNCHANGED << runVars, rateVars, wr, proc, libVars, val, cf, web >>

RouteInit ==
  /\ ModuleLoaded
  /\ now = ProcessStart
  /\ wr = NoCall
  /\ proc = NoProcess
  /\ RunIdle
  /\ gen = NoLibraryCall
  /\ shuf = NoLibraryCall
  /\ sel = NoLibraryCall
  /\ site = NoLibraryCall
  /\ val = NoLibraryCall
  /\ cf = NoLibraryCall
  /\ web = NoLibraryCall
  /\ \E table \in RouteTables :
       rt = [pc |-> "idle", table |-> table, hasMore |-> FALSE, page |-> 0,
             totalFetched |-> 0, fetches |-> 0, errors |-> 0]

RouteNext == RouteGet \/ RouteFetch

\* a request that is being served goes on being served
RouteSpec == RouteInit /\ [][RouteNext]_vars /\ WF_vars(RouteNext)

\* C36: the pagination loop of the route ends for every finite table and
\* every pattern of fetch errors: every turn advances the page or ends the
\* loop, and when every fetch fails the loop stops once page exceeds 100
C36_PaginationTerminates ==
  /\ <>(rt.pc = "done")
  /\ [][rt.pc = "loop" => (rt'.pc = "done" \/ rt'.page = rt.page + 1)]_vars
  /\ [](rt.errors = rt.fetches =>
          /\ rt.page = rt.fetches
          /\ rt.page <= errorPages + 1
          /\ (rt.page > errorPages => rt.pc = "done"))

\* the loop ended after errorPages + 1 fetches that all failed
C36_Witness ==
  /\ rt.pc = "done"
  /\ rt.errors = errorPages + 1
  /\ rt.fetches = rt.errors
  /\ rt.page = errorPages + 1

(***************************************************************************)
(* Requests: parseSubdomain, getStateSubdomainURL and the four variants of *)
(* the middleware (middleware.ts, part_001, part_002, part_003)            *)
(***************************************************************************)
\* redirects of one request that are followed
MaxHops == 4

\* configurations of a site: subdomain mode by the domain rule, off, and on
WebConfigs ==
  { SiteConfig("free-government-phone.org", "undefined"),
    SiteConfig("govphone.us", "false"),
    SiteConfig("a.co", "true") }

\* a URL as new URL(...) gives it: protocol, hostname, port, pathname, search
Url(protocol, hostname, port, pathname, search) ==
  [protocol |-> protocol, hostname |-> hostname, port |-> port,
   pathname |-> pathname, search |-> search]

\* url.href
Href(url) ==
  url.protocol \o "//" \o url.hostname
  \o (IF url.port = "" THEN "" ELSE ":" \o url.port)
  \o url.pathname \o url.search

\* new URL(destination) of a destination `https://${host}${path}${search}`
\* the middleware or getStateSubdomainURL builds (the host in lower case, a
\* path that is never empty)
parseURL(destination) ==
  LET rest == SubSeq(destination, Len("https://") + 1, Len(destination))
      authority == splitFirst(rest, "/")
      target == SubSeq(rest, Len(authority) + 1, Len(rest))
      pathname == splitFirst(target, "?")
  IN Url("https:", toLowerCase(authority), "",
         IF pathname = "" THEN "/" ELSE pathname,
         SubSeq(target, Len(pathname) + 1, Len(target)))

LowerLetters == { SubSeq(LowerCase, i, i) : i \in 1..Len(LowerCase) }
SlugCharacters ==
  LowerLetters \cup { SubSeq("0123456789-", i, i) : i \in 1..11 }

\* every character of s is of the class
AllIn(s, class) == \A i \in 1..Len(s) : SubSeq(s, i, i) \in class

\* /^[a-z]{2}$/.test(s)
TwoLetters(s) == Len(s) = 2 /\ AllIn(s, LowerLetters)

\* pathname.match(/^\/([a-z]{2})\/?$/)
stateMatch(pathname) ==
  /\ Len(pathname) \in { 3, 4 }
  /\ SubSeq(pathname, 1, 1) = "/"
  /\ TwoLetters(SubSeq(pathname, 2, 3))
  /\ Len(pathname) = 4 => SubSeq(pathname, 4, 4) = "/"

\* the slug of pathname.match(/^\/([a-z]{2})\/([a-z0-9-]+)\/?$/)
CitySlugOf(pathname) ==
  IF endsWith(pathname, "/") THEN SubSeq(pathname, 5, Len(pathname) - 1)
  ELSE SubSeq(pathname, 5, Len(pathname))

\* pathname.match(/^\/([a-z]{2})\/([a-z0-9-]+)\/?$/)
cityMatch(pathname) ==
  /\ Len(pathname) >= 5
  /\ SubSeq(pathname, 1, 1) = "/"
  /\ TwoLetters(SubSeq(pathname, 2, 3))
  /\ SubSeq(pathname, 4, 4) = "/"
  /\ CitySlugOf(pathname) # ""
  /\ AllIn(CitySlugOf(pathname), SlugCharacters)

\* the answers of onRequest
NextAnswer == [kind |-> "next", to |-> "", rule |-> "next"]
Redirect(destination, rule) ==
  [kind |-> "redirect", to |-> destination, rule |-> rule]

\* host.endsWith('.vercel.app') || host === 'localhost' ||
\* host === '127.0.0.1' || host.includes('localhost')
isPreviewHost(host) ==
  \/ endsWith(host, ".vercel.app")
  \/ host = "localhost"
  \/ host = "127.0.0.1"
  \/ includes(host, "localhost")

isExactDomain(host, config) == host = getDomain(config)
isWwwDomain(host, config) == host = "www." \o getDomain(config)
isSubdomain(host, config) ==
  endsWith(host, "." \o getDomain(config)) /\ ~isWwwDomain(host, config)

\* `https://${configuredDomain}${url.pathname}${url.search}`
CanonicalOf(url, config) ==
  "https://" \o getDomain(config) \o url.pathname \o url.search

\* the end all four variants share: the redirect to the canonical domain
\* unless the request is that very URL, else next()
CanonicalOrNext(url, config) ==
  LET host == toLowerCase(url.hostname)
  IN IF ~isPreviewHost(host) /\ host # getDomain(config)
          /\ Href(url) # CanonicalOf(url, config)
       THEN Redirect(CanonicalOf(url, config), "canonical")
       ELSE NextAnswer

\* the block 'Allow preview hosts and the configured domain' with its www
\* redirect inside (middleware.ts, part_001, part_003)
AllowedOrCanonical(url, config, allowed) ==
  LET host == toLowerCase(url.hostname)
  IN IF allowed
       THEN IF isWwwDomain(host, config) /\ ~isPreviewHost(host)
              THEN Redirect(CanonicalOf(url, config), "www")
              ELSE NextAnswer
       ELSE CanonicalOrNext(url, config)

\* onRequest of middleware.ts
onRequest0(url, config) ==
  LET host == toLowerCase(url.hostname)
  IN AllowedOrCanonical(url, config,
       isPreviewHost(host) \/ isExactDomain(host, config)
         \/ isSubdomain(host, config))

\* subdomainInfo || isStateSubdomain of part_001 and part_002
ValidSubdomain(host, config) ==
  \/ parseSubdomain(host, config) # Null
  \/ TwoLetters(splitFirst(host, "."))

\* the test without url.pathname !== '/'
UnexpectedPathOrRoot(pathname) ==
  ~(stateMatch(pathname) \/ cityMatch(pathname))

\* !isRewrittenPath && url.pathname !== '/' of part_001
UnexpectedPath(pathname) ==
  ~(stateMatch(pathname) \/ cityMatch(pathname)) /\ pathname # "/"

\* onRequest of part_001
onRequest1(url, config) ==
  LET host == toLowerCase(url.hostname)
      domain == getDomain(config)
  IN IF useSubdomains(config) /\ isSubdomain(host, config)
          /\ ValidSubdomain(host, config)
       THEN IF UnexpectedPath(url.pathname)
              THEN Redirect("https://" \o host \o "/", "subdomain-root")
              ELSE NextAnswer
     ELSE IF useSubdomains(config) /\ isExactDomain(host, config)
               /\ ~isPreviewHost(host) /\ stateMatch(url.pathname)
       THEN Redirect("https://" \o SubSeq(url.pathname, 2, 3) \o "."
                       \o domain \o "/", "state-subdomain")
     ELSE IF useSubdomains(config) /\ isExactDomain(host, config)
               /\ ~isPreviewHost(host) /\ cityMatch(url.pathname)
       THEN Redirect("https://" \o CitySlugOf(url.pathname) \o "-"
                       \o SubSeq(url.pathname, 2, 3) \o "." \o domain
                       \o "/", "city-subdomain")
     ELSE AllowedOrCanonical(url, config,
            isPreviewHost(host) \/ isExactDomain(host, config)
              \/ (isSubdomain(host, config) /\ useSubdomains(config)))

\* onRequest of part_002
onRequest2(url, config) ==
  LET host == toLowerCase(url.hostname)
  IN IF useSubdomains(config) /\ isSubdomain(host, config)
          /\ ValidSubdomain(host, config)
       THEN IF stateMatch(url.pathname) \/ cityMatch(url.pathname)
              THEN NextAnswer
            ELSE IF url.pathname # "/"
              THEN Redirect("https://" \o host \o "/", "subdomain-root")
            ELSE NextAnswer
     ELSE IF isWwwDomain(host, config) /\ ~isPreviewHost(host)
       THEN Redirect(CanonicalOf(url, config), "www")
     ELSE IF isPreviewHost(host) \/ isExactDomain(host, config)
               \/ (isSubdomain(host, config) /\ useSubdomains(config))
       THEN NextAnswer
     ELSE CanonicalOrNext(url, config)

\* subdomainPart.split('-'): parts.length >= 2 and the last part of length 2
CityStateSubdomain(part) ==
  /\ Len(part) >= 3
  /\ SubSeq(part, Len(part) - 2, Len(part) - 2) = "-"
  /\ ~includes(SubSeq(part, Len(part) - 1, Len(part)), "-")

\* onRequest of part_003
onRequest3(url, config) ==
  LET host == toLowerCase(url.hostname)
      domain == getDomain(config)
      subdomainPart == splitFirst(host, ".")
      off == ~useSubdomains(config) /\ isSubdomain(host, config)
               /\ ~isPreviewHost(host)
  IN IF off /\ TwoLetters(subdomainPart)
       THEN Redirect("https://" \o domain \o "/" \o subdomainPart
                       \o url.pathname \o url.search, "state-path")
     ELSE IF off /\ CityStateSubdomain(subdomainPart)
       THEN Redirect("https://" \o domain \o "/"
                       \o SubSeq(subdomainPart, Len(subdomainPart) - 1,
                                 Len(subdomainPart))
                       \o "/"
                       \o SubSeq(subdomainPart, 1, Len(subdomainPart) - 3)
                       \o url.pathname \o url.search, "city-path")
     ELSE AllowedOrCanonical(url, config,
            isPreviewHost(host) \/ isExactDomain(host, config)
              \/ (isSubdomain(host, config) /\ useSubdomains(config)))

\* onRequest of the middleware and of its three other variants
onRequest(variant, url, config) ==
  CASE variant = 0 -> onRequest0(url, config)
    [] variant = 1 -> onRequest1(url, config)
    [] variant = 2 -> onRequest2(url, config)
    [] variant = 3 -> onRequest3(url, config)

\* hostnames requests arrive with, for a configured domain
Hostnames(domain) ==
  { domain, "www." \o domain, "texas." \o domain, "new-york." \o domain,
    "nj." \o domain, "wayne-nj." \o domain, "foo." \o domain,
    "constructor." \o domain, "other.com", "site-abc.vercel.app",
    "localhost", "127.0.0.1" }

\* the URLs of requests
RequestUrls(domain) ==
  { Url(protocol, hostname, port, pathname, search) :
      protocol \in { "http:", "https:" }, hostname \in Hostnames(domain),
      port \in { "" },
      pathname \in { "/", "/nj", "/nj/", "/nj/wayne", "/nj/wayne/", "/faq" },
      search \in { "", "?ref=1" } }
  \cup { Url("http:", "localhost", "4321", "/nj/wayne", "") }

NoRequest == Url("", "", "", "", "")
NoLookup == [fn |-> "none", arg |-> "", hostname |-> "", parsed |-> Null]

\* a request arrives
Request ==
  /\ web.pc = "idle"
  /\ \E url \in RequestUrls(getDomain(web.config)) :
       web' = [web EXCEPT !.pc = "pending", !.request = url,
                          !.first = url]
  /\ UNCHANGED << runVars, rateVars, wr, proc, libVars, val, cf, rt >>

\* onRequest(context, next) answers the pending request: next(), or a 301
\* that the client follows with a request of the destination
OnRequest ==
  /\ web.pc = "pending"
  /\ Len(web.chain) < MaxHops
  /\ LET answer == onRequest(web.variant, web.request, web.config)
     IN IF answer.kind = "next"
          THEN web' = [web EXCEPT !.pc = "served"]
          ELSE web' = [web EXCEPT
                         !.request = parseURL(answer.to),
                         !.chain = Append(@, [from |-> Href(web.request),
                                              to |-> answer.to,
                                              rule |-> answer.rule])]
  /\ UNCHANGED << runVars, rateVars, wr, proc, libVars, val, cf, rt >>

\* parseSubdomain(hostname) is called
ParseSubdomain ==
  /\ web.pc = "idle"
  /\ \E hostname \in Hostnames(getDomain(web.config))
                      \cup { "Texas." \o getDomain(web.config),
                             "texas." \o getDomain(web.config) \o ":4321",
                             "a.texas." \o getDomain(web.config),
                             "texas" \o getDomain(web.config) } :
       web' = [web EXCEPT
                 !.pc = "looked",
                 !.lookup = [fn |-> "parseSubdomain", arg |-> hostname,
                             hostname |-> hostname,
                             parsed |-> parseSubdomain(hostname,
                                                       web.config)]]
  /\ UNCHANGED << runVars, rateVars, wr, proc, libVars, val, cf, rt >>

\* parseSubdomain(new URL(getStateSubdomainURL(A)).hostname) for an
\* abbreviation A of the table
StateRoundTrip ==
  /\ web.pc = "idle"
  /\ \E i \in 1..Len(STATE_NAME_TO_ABBR) :
       LET A == STATE_NAME_TO_ABBR[i][2]
           hostname == parseURL(getStateSubdomainURL(A, web.config)).hostname
       IN web' = [web EXCEPT
                    !.pc = "looked",
                    !.lookup = [fn |-> "roundTrip", arg |-> A,
                                hostname |-> hostname,
                                parsed |-> parseSubdomain(hostname,
                                                          web.config)]]
  /\ UNCHANGED << runVars, rateVars, wr, proc, libVars, val, cf, rt >>

WebInit ==
  /\ ModuleLoaded
  /\ now = ProcessStart
  /\ wr = NoCall
  /\ proc = NoProcess
  /\ RunIdle
  /\ gen = NoLibraryCall
  /\ shuf = NoLibraryCall
  /\ sel = NoLibraryCall
  /\ site = NoLibraryCall
  /\ val = NoLibraryCall
  /\ cf = NoLibraryCall
  /\ rt = NoLibraryCall
  /\ \E config \in WebConfigs, variant \in 0..3 :
       web = [pc |-> "idle", config |-> config, variant |-> variant,
              request |-> NoRequest, first |-> NoRequest, chain |-> << >>,
              lookup |-> NoLookup]

WebNext == Request \/ OnRequest \/ ParseSubdomain \/ StateRoundTrip

WebSpec == WebInit /\ [][WebNext]_vars

\* a preview host as the deployment names them: *.vercel.app, localhost,
\* 127.0.0.1
PreviewHost(hostname) ==
  \/ endsWith(hostname, ".vercel.app")
  \/ hostname = "localhost"
  \/ hostname = "127.0.0.1"

\* C37: in each variant of the middleware a request is answered with next()
\* or with a 301 to a URL other than the request's; following the redirects
\* ends with next() after at most two hops, two only when a path-based
\* state or city URL is first sent to the canonical domain and then to its
\* subdomain; a request on a preview host, or on the exact configured domain
\* without subdomain mode, is not redirected
C37_RedirectsNeverLoop ==
  /\ \A k \in 1..Len(web.chain) :
       /\ web.chain[k].to # web.chain[k].from
       /\ Href(parseURL(web.chain[k].to)) # web.chain[k].from
  /\ Len(web.chain) <= 2
  /\ (web.pc = "pending" /\ Len(web.chain) = 2) =>
       onRequest(web.variant, web.request, web.config).kind = "next"
  /\ Len(web.chain) = 2 =>
       /\ web.chain[1].rule \in { "canonical", "www" }
       /\ web.chain[2].rule \in { "state-subdomain", "city-subdomain" }
  /\ (web.pc \in { "pending", "served" }
        /\ \/ PreviewHost(web.first.hostname)
           \/ /\ web.first.hostname = getDomain(web.config)
              /\ ~useSubdomains(web.config)) =>
       web.chain = << >>

\* a request for a city's path on another host was sent to the canonical
\* domain, from there to the city's subdomain, and served there
C37_Witness ==
  /\ web.pc = "served"
  /\ web.variant = 1
  /\ Len(web.chain) = 2
  /\ web.chain[1].rule = "canonical"
  /\ web.chain[2].rule = "city-subdomain"
  /\ web.request.hostname = "wayne-nj." \o getDomain(web.config)

\* the subdomain a hostname names under the configured domain
SubdomainOf(hostname, config) ==
  LET host == toLowerCase(splitFirst(hostname, ":"))
  IN IF endsWith(host, "." \o getDomain(config))
       THEN SubSeq(host, 1, Len(host) - Len(getDomain(config)) - 1)
       ELSE ""

StateNames ==
  { STATE_NAME_TO_ABBR[i][1] : i \in 1..Len(STATE_NAME_TO_ABBR) }

\* STATE_ABBR_TO_NAME is the inverse of STATE_NAME_TO_ABBR
TablesInverse ==
  /\ \A i, j \in 1..Len(STATE_NAME_TO_ABBR) :
       i # j => /\ STATE_NAME_TO_ABBR[i][1] # STATE_NAME_TO_ABBR[j][1]
                /\ STATE_NAME_TO_ABBR[i][2] # STATE_NAME_TO_ABBR[j][2]
  /\ \A i \in 1..Len(STATE_NAME_TO_ABBR) :
       OwnProperty(STATE_ABBR_TO_NAME,
                   toLowerCase(STATE_NAME_TO_ABBR[i][2]))
         = [kind |-> "own", value |-> STATE_NAME_TO_ABBR[i][1]]

\* with subdomain mode on, parseSubdomain of the hostname of
\* getStateSubdomainURL(A) gives A
RoundTrips ==
  (web.lookup.fn = "roundTrip" /\ useSubdomains(web.config)) =>
    /\ web.lookup.parsed # Null
    /\ web.lookup.parsed.stateAbbr = [kind |-> "own", value |-> web.lookup.arg]

\* C38 as stated: STATE_ABBR_TO_NAME is the exact inverse of
\* STATE_NAME_TO_ABBR, so with subdomain mode on parseSubdomain of the
\* hostname of getStateSubdomainURL(A) returns stateAbbr = A for every
\* abbreviation A of the table, and a hostname whose subdomain is not a
\* state name (including 'www') yields null.
C38_SubdomainRoundTrip ==
  /\ TablesInverse
  /\ RoundTrips
  /\ (web.lookup.fn = "parseSubdomain"
        /\ SubdomainOf(web.lookup.arg, web.config) \notin StateNames) =>
       web.lookup.parsed = Null

====
